---- MODULE Spec2Model ----
(***************************************************************************)
(* A model of symphonia-format-rtpdump: the per-SSRC reorder and           *)
(* reconstruction Channel and the RtpDemuxer of demuxer.rs, the            *)
(* alternative Channel/RtpDemuxer of demuxer_new.rs, and the two passes    *)
(* (detection, replay) of RtpdumpReader in lib.rs.                         *)
(***************************************************************************)
EXTENDS Integers, Sequences, FiniteSets, TLC

VARIABLES
    chls,             \* RtpDemuxer.chls: the Channels of demuxer.rs
    op,               \* history: the last call, its arguments, pre-state and result
    rel,              \* history: per channel, the last frame released and the timestamps accepted
    panicked,         \* the process has aborted (panic, unwrap, unreachable!)
    overflow_checks,  \* the build's integer-overflow checks (debug: on, release: off)
    calls,            \* history: how many calls of each kind have been made
    nchls,            \* RtpDemuxer.chls of demuxer_new.rs
    rd,               \* RtpdumpReader: the capture, the read position, codecs, cache
    detector,         \* CodecDetector of codec_detector.rs
    observed          \* history: what the packets given to CodecDetector::on_pkt had in common

vars == <<chls, op, rel, panicked, overflow_checks, calls, nchls, rd, detector, observed>>

----------------------------------------------------------------------------
(* Machine integers.  TLC's integers are 32-bit signed, so a u32 of the     *)
(* code is modelled 30 bits wide: every u32 operation below wraps or       *)
(* saturates at U32 exactly as the code's does at 2^32, and the values     *)
(* used are taken next to 0 and next to U32.  A u16 keeps its width.       *)

U32 == 2^30
U16 == 2^16
None == -1

wrapping_add(a, b) == (a + b) % U32
wrapping_sub(a, b) == (a - b + U32) % U32
saturating_sub(a, b) == IF a > b THEN a - b ELSE 0
seq_wrapping_add(a, b) == (a + b) % U16

\* F applied to the value of v: v is evaluated once, where an operator's
\* argument is evaluated at each of its uses
With(v, F(_)) == CHOOSE y \in {F(x) : x \in {v}} : TRUE

SeqMin(S) == CHOOSE x \in S : \A y \in S : x <= y
SeqMax(S) == CHOOSE x \in S : \A y \in S : x >= y

----------------------------------------------------------------------------
(* Packets: the header fields the demuxer reads, and whether a payload     *)
(* follows the 12 header bytes.                                            *)

RealPkt(seq, ts, ssrc) == [seq |-> seq, ts |-> ts, ssrc |-> ssrc, real |-> TRUE]

dummy(ssrc) == [seq |-> 0, ts |-> 0, ssrc |-> ssrc, real |-> FALSE]

dummy_ts(ssrc, ts) == [seq |-> 0, ts |-> ts, ssrc |-> ssrc, real |-> FALSE]

----------------------------------------------------------------------------
(* Channel of demuxer.rs                                                   *)

NewChannel(ssrc, dt, start, end) ==
    [ssrc |-> ssrc, delta_time |-> dt, start |-> start, end |-> end,
     missed |-> 0, pkts |-> <<>>, pkt_cnt |-> 0, last_ts |-> None]

pkt_queue_len(queue, delta_time) ==
    IF queue = <<>> THEN 0
    ELSE (wrapping_sub(queue[Len(queue)].ts, queue[1].ts) \div delta_time) + 1

is_queue_full(c, max) == pkt_queue_len(c.pkts, c.delta_time) > max

\* index of the first buffered packet with a greater sequence number, 0 for None
find_first_greater_seq_pkt(q, pkt) ==
    LET idx == {i \in 1..Len(q) : q[i].seq > pkt.seq}
    IN  IF idx = {} THEN 0 ELSE SeqMin(idx)

InsertAt(q, i, x) == SubSeq(q, 1, i - 1) \o <<x>> \o SubSeq(q, i, Len(q))

\* the early returns of add_pkt: TRUE when the packet is rejected
window_reject(c, pkt) ==
    IF c.start < c.end
    THEN pkt.ts < c.start \/ pkt.ts > c.end
    ELSE pkt.ts < c.end /\ pkt.ts > c.start

\* a fast path taken by every greater sequence number
is_greater_seq(last_seq, seq) == seq > last_seq

\* the tail fast path of add_pkt
is_next_seq(last_seq, seq) == seq_wrapping_add(last_seq, 1) = seq

\* mutant: packets are kept in their order of arrival
enqueue_arrival(q, pkt) == Append(q, pkt)

\* the position add_pkt gives a packet that passed the window check
enqueue(q, pkt) ==
    IF q = <<>> THEN <<pkt>>
    ELSE IF is_next_seq(q[Len(q)].seq, pkt.seq) THEN Append(q, pkt)
    ELSE LET gre == find_first_greater_seq_pkt(q, pkt)
         IN  IF gre = 0 THEN Append(q, pkt) ELSE InsertAt(q, gre, pkt)

\* the branch of add_pkt a packet that passed the window check takes: the
\* empty buffer, the tail fast path, or the search for a greater sequence
\* number, ending in an insertion or in push_back
enqueue_path(q, pkt) ==
    IF q = <<>> THEN "empty"
    ELSE IF is_next_seq(q[Len(q)].seq, pkt.seq) THEN "fast"
    ELSE IF find_first_greater_seq_pkt(q, pkt) = 0 THEN "search_append"
    ELSE "search_insert"

add_pkt(c, pkt) ==
    IF window_reject(c, pkt) THEN c
    ELSE [c EXCEPT !.pkts = enqueue(@, pkt), !.pkt_cnt = @ + 1]

\* mutant: a packet less than one frame after ts counts as the next frame
gap_of_at_least_one(pkt_ts, ts, delta_time) ==
    IF saturating_sub(pkt_ts, ts) \div delta_time = 0 THEN 1
    ELSE saturating_sub(pkt_ts, ts) \div delta_time

\* gap between the buffer head and the last delivered timestamp, in frames
gap_of(pkt_ts, ts, delta_time) == saturating_sub(pkt_ts, ts) \div delta_time

\* n synthetic frames at ts + delta_time, ts + 2 * delta_time, ...
fill_dummies(ssrc, ts, n, delta_time) ==
    [i \in 1..n |-> dummy_ts(ssrc, wrapping_add(ts, i * delta_time))]

\* mutant: the loop index starts one frame late
gap_dummies_late(ssrc, ts, gap, delta_time) ==
    [i \in 1..(gap - 1) |-> dummy_ts(ssrc, wrapping_add(ts, (i + 1) * delta_time))]

\* the synthetic predecessors of a head packet `gap` frames after ts
gap_dummies(ssrc, ts, gap, delta_time) ==
    [i \in 1..(gap - 1) |-> dummy_ts(ssrc, wrapping_add(ts, i * delta_time))]

\* how get_pkts ends: the channel and the frames it returns, whether it
\* panicked, and (history) the arm that ended the loop with the channel and the
\* frames produced on entering that arm
Done(c, out, exit, mid, mid_out) ==
    [chl |-> c, out |-> out, panic |-> FALSE, exit |-> exit, mid |-> mid, mid_out |-> mid_out]

\* a panic unwinds get_pkts: nothing is returned
Abort(c, out, exit) ==
    [chl |-> c, out |-> <<>>, panic |-> TRUE, exit |-> exit, mid |-> c, mid_out |-> out]

\* usize as u32
as_u32(n) == n % U32

\* n * delta_time does not fit a u32
mul_overflows(n, delta_time) == n * delta_time >= U32

\* mutant: a channel exactly at `end` is still taken to be in progress
empty_arm_strict(c, out, cnt, oc) ==
    LET ts == c.last_ts
        n  == as_u32(saturating_sub(cnt, Len(out)))
    IN  IF c.end < ts
        THEN Done([c EXCEPT !.last_ts = wrapping_add(ts, n * c.delta_time)],
                  out \o fill_dummies(c.ssrc, ts, n, c.delta_time),
                  "closing", c, out)
        ELSE Done([c EXCEPT !.missed = @ + saturating_sub(cnt, Len(out))], out,
                  "missed", c, out)

\* the (None, Some(ts)) arm: the buffer is empty and something was delivered
empty_arm(c, out, cnt, oc) ==
    LET ts == c.last_ts
        n  == as_u32(saturating_sub(cnt, Len(out)))
    IN  IF c.end <= ts
        THEN IF mul_overflows(n, c.delta_time) /\ oc
             THEN Abort(c, out, "mul_overflow")
             ELSE Done([c EXCEPT !.last_ts = wrapping_add(ts, n * c.delta_time)],
                       out \o fill_dummies(c.ssrc, ts, n, c.delta_time),
                       "closing", c, out)
        ELSE Done([c EXCEPT !.missed = @ + saturating_sub(cnt, Len(out))], out,
                  "missed", c, out)

\* every packet at the head of the buffer that follows the one before it
\* with a gap of 1, whatever the room
run_len_all(q, ts, delta_time, room) ==
    SeqMax({m \in 1..Len(q) :
               \A j \in 1..m :
                   gap_of(q[j].ts, IF j = 1 THEN ts ELSE q[j - 1].ts, delta_time) = 1})

\* how many packets at the head of the buffer follow one another, the first
\* of them ts, with a gap of 1, at most `room` of them
run_len(q, ts, delta_time, room) ==
    SeqMax({m \in 1..(IF Len(q) < room THEN Len(q) ELSE room) :
               \A j \in 1..m :
                   gap_of(q[j].ts, IF j = 1 THEN ts ELSE q[j - 1].ts, delta_time) = 1})

\* the buffer without the packets at its head whose gap to ts is 0
drop_stale(q, ts, delta_time) ==
    LET kept == {k \in 1..Len(q) : gap_of(q[k].ts, ts, delta_time) # 0}
    IN  IF kept = {} THEN <<>> ELSE SubSeq(q, SeqMin(kept), Len(q))

RECURSIVE get_loop(_, _, _, _)
\* one iteration of the loop of get_pkts
get_iter(c, out, cnt, oc) ==
    IF Len(out) >= cnt + c.missed
    THEN Done([c EXCEPT !.missed = 0], out, "full", c, out)
    ELSE IF c.pkts = <<>>
    THEN IF c.last_ts = None
         THEN Done(c, out \o [i \in 1..cnt |-> dummy(c.ssrc)], "startup", c, out)
         ELSE empty_arm(c, out, cnt, oc)
    ELSE
    LET pkt    == Head(c.pkts)
        popped == [c EXCEPT !.pkts = Tail(@)]
    IN  IF c.last_ts = None
        THEN get_loop([popped EXCEPT !.last_ts = pkt.ts], Append(out, pkt), cnt, oc)
        ELSE
        LET ts   == c.last_ts
            gap  == gap_of(pkt.ts, ts, c.delta_time)
            sum  == as_u32(Len(out)) + gap        \* pkts.len() as u32 + gap
            overflow_cnt == saturating_sub(sum % U32, as_u32(cnt))
            taken == [popped EXCEPT !.last_ts = pkt.ts]
        IN  IF sum >= U32 /\ oc
            THEN Abort(popped, out, "add_overflow")   \* attempt to add with overflow
            ELSE IF gap = 1 /\ overflow_cnt = 0
            \* this iteration, and those after it that take this arm again
            THEN LET m == run_len(c.pkts, ts, c.delta_time, cnt - Len(out))
                 IN  get_loop([c EXCEPT !.pkts = SubSeq(@, m + 1, Len(@)),
                                        !.last_ts = c.pkts[m].ts],
                              out \o SubSeq(c.pkts, 1, m), cnt, oc)
            ELSE IF gap > 1 /\ overflow_cnt = 0
            THEN IF sum >= U32
                 \* the wrapped sum hides the overflow: gap - 1 (about 2^32)
                 \* synthetic frames are pushed until allocation fails
                 THEN Abort(popped, out, "alloc")
                 ELSE get_loop(taken,
                               Append(out \o gap_dummies(c.ssrc, ts, gap, c.delta_time), pkt),
                               cnt, oc)
            ELSE IF gap = 1 /\ overflow_cnt > 0
            THEN IF c.missed = 0
                 THEN Done(c, out, "pushback", c, out)     \* push_front(pkt)
                 ELSE get_loop([taken EXCEPT !.missed = @ - 1], Append(out, pkt), cnt, oc)
            ELSE IF gap > 1 /\ overflow_cnt > 0
            THEN LET n == as_u32(saturating_sub(cnt, Len(out)))
                 IN  IF mul_overflows(n, c.delta_time) /\ oc
                     THEN Abort(popped, out, "mul_overflow")
                     ELSE Done([c EXCEPT !.last_ts = wrapping_add(ts, n * c.delta_time)],
                               out \o fill_dummies(c.ssrc, ts, n, c.delta_time),
                               "gapfill", c, out)
            \* gap = 0: no arm matches, the packet is gone; so are those
            \* behind it that the next iterations pop with gap = 0
            ELSE get_loop([c EXCEPT !.pkts = drop_stale(@, ts, c.delta_time)], out, cnt, oc)

\* the loop of get_pkts, from channel c with the frames `out` produced
get_loop(c, out, cnt, oc) ==
    With(<<c, out, cnt, oc>>, LAMBDA a : get_iter(a[1], a[2], a[3], a[4]))

get_pkts(c, cnt, oc) == get_loop(c, <<>>, cnt, oc)

----------------------------------------------------------------------------
(* RtpDemuxer of demuxer.rs                                                *)

sort_uniq_queue_size == 250
full_batch == 50

\* RtpDemuxer.aligned: false by default, and nothing assigns it
aligned == FALSE

\* chls.iter().find(|chl| chl.ssrc == ssrc): the index, 0 when there is none
find_chl(cs, ssrc) ==
    IF \E i \in 1..Len(cs) : cs[i].ssrc = ssrc
    THEN SeqMin({i \in 1..Len(cs) : cs[i].ssrc = ssrc})
    ELSE 0

need_align(cs) ==
    IF Len(cs) = 1 THEN FALSE
    ELSE /\ \E i \in 1..Len(cs) : cs[i].pkt_cnt = 1
         /\ Cardinality({i \in 1..Len(cs) : cs[i].pkt_cnt > 0}) > 1

\* RtpDemuxer::add_pkt: the channels it leaves (it returns need_align of them)
demuxer_add_pkt(cs, pkt) ==
    LET i == find_chl(cs, pkt.ssrc)
    IN  IF i = 0 THEN cs ELSE [cs EXCEPT ![i] = add_pkt(@, pkt)]

any_queue_full(cs) == \E i \in 1..Len(cs) : is_queue_full(cs[i], sort_uniq_queue_size)

\* the test of all_chl_finished for one channel
chl_finished(c) == c.last_ts # None /\ c.last_ts >= c.end

all_chl_finished(cs) == \A i \in 1..Len(cs) : chl_finished(cs[i])

\* the longest reorder buffer, in frames
max_queue_len(cs) == SeqMax({pkt_queue_len(cs[i].pkts, cs[i].delta_time) : i \in 1..Len(cs)})

\* chl.get_pkts(cnt) for the channels from i on, in order; a channel that
\* `skip` selects yields cnt dummies instead
RECURSIVE get_each(_, _, _, _, _, _)
get_one(cs, i, cnt, oc, out, skip) ==
    IF i > Len(cs) THEN [chls |-> cs, out |-> out, panic |-> FALSE]
    ELSE IF skip /\ cs[i].pkt_cnt = 1
    THEN get_each(cs, i + 1, cnt, oc, out \o [k \in 1..cnt |-> dummy(cs[i].ssrc)], skip)
    ELSE With(get_pkts(cs[i], cnt, oc), LAMBDA r :
             IF r.panic
             THEN [chls |-> [cs EXCEPT ![i] = r.chl], out |-> <<>>, panic |-> TRUE]
             ELSE get_each([cs EXCEPT ![i] = r.chl], i + 1, cnt, oc, out \o r.out, skip))

get_each(cs, i, cnt, oc, out, skip) ==
    With(<<cs, i, cnt, oc, out, skip>>,
         LAMBDA a : get_one(a[1], a[2], a[3], a[4], a[5], a[6]))

\* RtpDemuxer::get_all_pkts: max().unwrap() panics when there is no channel
get_all_pkts(cs, oc) ==
    IF Len(cs) = 0 THEN [chls |-> cs, out |-> <<>>, panic |-> TRUE]
    ELSE get_each(cs, 1, max_queue_len(cs), oc, <<>>, FALSE)

\* RtpDemuxer::get_pkts(need_align): `some` tells Some(result) from None
demuxer_get_pkts(cs, need, oc) ==
    IF need /\ ~aligned
    THEN IF Len(cs) = 0 THEN [some |-> FALSE, chls |-> cs, out |-> <<>>, panic |-> TRUE]
         ELSE [some |-> TRUE] @@ get_each(cs, 1, max_queue_len(cs), oc, <<>>, TRUE)
    ELSE IF ~any_queue_full(cs)
    THEN [some |-> FALSE, chls |-> cs, out |-> <<>>, panic |-> FALSE]
    ELSE [some |-> TRUE] @@ get_each(cs, 1, full_batch, oc, <<>>, FALSE)

----------------------------------------------------------------------------
(* Channel and RtpDemuxer of demuxer_new.rs.  A Duration is a number of    *)
(* milliseconds.                                                           *)

NewChannelNew(ssrc, dt, first_packet, last_packet, max) ==
    [ssrc |-> ssrc, delta_time |-> dt, frame_dur |-> 20, start |-> 0, end |-> 0,
     first_packet |-> first_packet, last_packet |-> last_packet, timestamp |-> 0,
     delivered |-> None, last_dummy_ts |-> 0, ingress |-> <<>>,
     ingress_sort_uniq_len |-> max, egress |-> <<>>]

ingress_len(c) == pkt_queue_len(c.ingress, c.delta_time)

\* mutant: a window that is exactly full already counts as exceeded
ingress_at_least(c, max) == ingress_len(c) >= max

ingress_full(c, max) == ingress_len(c) > max

active(c) == c.timestamp >= c.first_packet /\ ~(c.timestamp >= c.last_packet)

finished(c) == c.timestamp >= c.last_packet

NoneRet(c) == [chl |-> c, some |-> FALSE, pkt |-> dummy(0), panic |-> FALSE]

\* Channel::get_pkt of demuxer_new.rs
new_get_pkt(c, oc) ==
    IF ~finished(c) /\ ~ingress_full(c, c.ingress_sort_uniq_len) THEN NoneRet(c)
    ELSE IF c.ingress = <<>> THEN NoneRet(c)
    ELSE
    LET pkt    == Head(c.ingress)
        popped == [c EXCEPT !.ingress = Tail(@)]
    IN  IF c.delivered = None
        THEN [chl |-> [popped EXCEPT !.delivered = pkt.ts], some |-> TRUE,
              pkt |-> pkt, panic |-> FALSE]
        ELSE
        LET sid_cnt == saturating_sub(saturating_sub(pkt.ts, c.delivered) \div c.delta_time, 1)
            sids    == [i \in 1..sid_cnt |->
                           dummy_ts(c.ssrc, wrapping_add(pkt.ts, (i * c.delta_time) % U32))]
            egress  == Append(c.egress \o sids, pkt)
        IN  IF oc /\ mul_overflows(sid_cnt, c.delta_time)
            THEN [chl |-> popped, some |-> FALSE, pkt |-> dummy(0), panic |-> TRUE]
            ELSE [chl |-> [popped EXCEPT !.egress = Tail(egress),
                                         !.delivered = Head(egress).ts],
                  some |-> TRUE, pkt |-> Head(egress), panic |-> FALSE]

\* Channel::add_pkt of demuxer_new.rs
new_add_pkt(c, pkt, ts, oc) ==
    LET timed == [c EXCEPT !.timestamp = ts]
    IN  IF window_reject(c, pkt) THEN NoneRet(timed)
        ELSE new_get_pkt([timed EXCEPT !.ingress = enqueue(@, pkt)], oc)

\* a sync that does not look at the active window
sync_any_window(c, ts) ==
    LET timed == [c EXCEPT !.timestamp = ts]
        dur   == saturating_sub(ts, c.last_dummy_ts)
    IN  IF dur \div c.frame_dur # 0
        THEN [timed EXCEPT !.egress = Append(@, dummy(c.ssrc)), !.last_dummy_ts = ts]
        ELSE timed

\* Channel::sync of demuxer_new.rs
sync(c, ts) ==
    LET timed == [c EXCEPT !.timestamp = ts]
        dur   == saturating_sub(ts, c.last_dummy_ts)
    IN  IF active(timed) THEN timed
        ELSE IF dur \div c.frame_dur # 0
        THEN [timed EXCEPT !.egress = Append(@, dummy(c.ssrc)), !.last_dummy_ts = ts]
        ELSE timed

\* an add_pkt that syncs every channel, the packet's own included
new_demuxer_add_pkt_sync_all(cs, pkt, ts, oc) ==
    LET i == find_chl(cs, pkt.ssrc)
    IN  IF i = 0 THEN [chls |-> cs, some |-> FALSE, pkt |-> dummy(0), panic |-> TRUE]
        ELSE LET r == new_add_pkt(cs[i], pkt, ts, oc)
                 added == [cs EXCEPT ![i] = r.chl]
             IN  IF r.panic
                 THEN [chls |-> added, some |-> FALSE, pkt |-> dummy(0), panic |-> TRUE]
                 ELSE [chls |-> [j \in 1..Len(cs) |-> sync(added[j], ts)],
                       some |-> r.some, pkt |-> r.pkt, panic |-> FALSE]

\* RtpDemuxer::add_pkt of demuxer_new.rs: unreachable! when no channel has
\* the packet's SSRC; the other channels are synced after the channel's add_pkt
new_demuxer_add_pkt(cs, pkt, ts, oc) ==
    LET i == find_chl(cs, pkt.ssrc)
    IN  IF i = 0 THEN [chls |-> cs, some |-> FALSE, pkt |-> dummy(0), panic |-> TRUE]
        ELSE LET r == new_add_pkt(cs[i], pkt, ts, oc)
                 added == [cs EXCEPT ![i] = r.chl]
             IN  IF r.panic
                 THEN [chls |-> added, some |-> FALSE, pkt |-> dummy(0), panic |-> TRUE]
                 ELSE [chls |-> [j \in 1..Len(cs) |->
                                    IF cs[j].ssrc # pkt.ssrc THEN sync(cs[j], ts)
                                    ELSE added[j]],
                       some |-> r.some, pkt |-> r.pkt, panic |-> FALSE]

\* the channels in the order of the Vec
in_vec_order(cs) == [k \in 1..Len(cs) |-> k]

\* chls sorted_by_key(ingress_len): a stable sort, as a sequence of indices
sorted_by_ingress_len(cs) ==
    LET before(j, i) == \/ ingress_len(cs[j]) < ingress_len(cs[i])
                        \/ ingress_len(cs[j]) = ingress_len(cs[i]) /\ j < i
        rank(i) == Cardinality({j \in 1..Len(cs) : before(j, i)}) + 1
    IN  [k \in 1..Len(cs) |-> CHOOSE i \in 1..Len(cs) : rank(i) = k]

RECURSIVE first_some(_, _, _, _)
first_some(cs, order, k, oc) ==
    IF k > Len(order) THEN [chls |-> cs, some |-> FALSE, pkt |-> dummy(0), panic |-> FALSE]
    ELSE LET i == order[k]
             r == new_get_pkt(cs[i], oc)
         IN  IF r.some \/ r.panic
             THEN [chls |-> [cs EXCEPT ![i] = r.chl], some |-> r.some,
                   pkt |-> r.pkt, panic |-> r.panic]
             ELSE first_some(cs, order, k + 1, oc)

\* RtpDemuxer::get_pkt of demuxer_new.rs
new_demuxer_get_pkt(cs, oc) == first_some(cs, sorted_by_ingress_len(cs), 1, oc)

\* a drain that pops one frame of each egress queue
new_get_front_pkts(cs, queue) ==
    [chls |-> [i \in 1..Len(cs) |->
                  [cs[i] EXCEPT !.egress = IF @ = <<>> THEN <<>> ELSE Tail(@)]],
     out  |-> queue \o [i \in 1..Len(cs) |->
                            IF cs[i].egress = <<>> THEN dummy(0) ELSE Head(cs[i].egress)]]

RECURSIVE egress_of(_, _)
egress_of(cs, i) == IF i > Len(cs) THEN <<>> ELSE cs[i].egress \o egress_of(cs, i + 1)

\* RtpDemuxer::get_all_pkts of demuxer_new.rs: every egress queue, in channel order
new_get_all_pkts(cs, queue) ==
    [chls |-> [i \in 1..Len(cs) |-> [cs[i] EXCEPT !.egress = <<>>]],
     out  |-> queue \o egress_of(cs, 1)]

----------------------------------------------------------------------------
(* RTP packets as bytes (rtp.rs): a packet is the sequence of its bytes    *)

\* the bytes of an RTP packet with first byte b0 (version, padding and
\* extension bits), payload type pt, and `body` after the 12 header bytes
RawPkt(b0, pt, seq, ts, ssrc, body) ==
    <<b0, pt, seq \div 256, seq % 256,
      ts \div 16777216, (ts \div 65536) % 256, (ts \div 256) % 256, ts % 256,
      ssrc \div 16777216, (ssrc \div 65536) % 256, (ssrc \div 256) % 256, ssrc % 256>>
    \o body

rtp_padding(raw) == (raw[1] \div 32) % 2 = 1
rtp_extension(raw) == (raw[1] \div 16) % 2 = 1
rtp_payload_type(raw) == raw[2] % 128
rtp_seq(raw) == raw[3] * 256 + raw[4]
rtp_ts(raw) == ((raw[5] * 256 + raw[6]) * 256 + raw[7]) * 256 + raw[8]
rtp_ssrc(raw) == ((raw[9] * 256 + raw[10]) * 256 + raw[11]) * 256 + raw[12]

\* PayloadType::is_dynamic
is_dynamic(pt) == pt \in 96..127

\* RtpPacket::payload: the slices it takes panic when they leave the packet
payload(raw) ==
    LET ext_len == (raw[15] * 256 + raw[16]) * 4
        offset  == 14 + ext_len
        bad_ext == rtp_extension(raw) /\ (Len(raw) < 16 \/ offset > Len(raw))
        buf     == IF ~rtp_extension(raw) THEN SubSeq(raw, 13, Len(raw))
                   ELSE SubSeq(raw, offset + 1, Len(raw))
    IN  IF Len(raw) < 12 \/ bad_ext THEN [panic |-> TRUE, buf |-> <<>>]
        ELSE IF rtp_padding(raw) /\ buf # <<>>
        THEN IF buf[Len(buf)] > Len(buf) THEN [panic |-> TRUE, buf |-> <<>>]
             ELSE [panic |-> FALSE, buf |-> SubSeq(buf, 1, Len(buf) - buf[Len(buf)])]
        ELSE [panic |-> FALSE, buf |-> buf]

\* parse_rtp(data).is_ok()
parse_rtp(data) ==
    IF Len(data) < 12 THEN FALSE
    ELSE
    LET rem0    == SubSeq(data, 13, Len(data))
        ext_ok  == Len(rem0) >= 4 /\ Len(rem0) - 4 >= (rem0[3] * 256 + rem0[4]) * 4
        rem1    == IF rtp_extension(data)
                   THEN SubSeq(rem0, 5 + (rem0[3] * 256 + rem0[4]) * 4, Len(rem0))
                   ELSE rem0
    IN  IF rtp_extension(data) /\ ~ext_ok THEN FALSE
        ELSE IF rtp_padding(data)
        THEN /\ rem1 # <<>>
             /\ rem1[Len(rem1)] < Len(rem1)
             /\ Len(rem1) - 1 - rem1[Len(rem1)] > 0
        ELSE rem1 # <<>>

\* the bytes parse_rtp has left in `rem` when it returns Ok: what follows the
\* header and the extension, less the padding and one byte more
parse_rtp_rem(data) ==
    LET rem0 == SubSeq(data, 13, Len(data))
        rem1 == IF rtp_extension(data)
                THEN SubSeq(rem0, 5 + (rem0[3] * 256 + rem0[4]) * 4, Len(rem0))
                ELSE rem0
    IN  IF rtp_padding(data) THEN SubSeq(rem1, 1, Len(rem1) - 1 - rem1[Len(rem1)])
        ELSE rem1

\* mutant: any four bytes are an event
parse_rtp_event_any_code(data) == Len(data) = 4

\* parse_rtp_event(data).is_ok(): four bytes, the first a known event code
parse_rtp_event(data) == Len(data) = 4 /\ data[1] <= 16

\* SimpleRtpPacket::from(&pkt), as the demuxer reads it
SimplePkt(raw) == RealPkt(rtp_seq(raw), rtp_ts(raw), rtp_ssrc(raw))

----------------------------------------------------------------------------
(* CodecDetector (codec_detector.rs).  codec.yaml is configured with two   *)
(* codecs bound to static payload types and no payload-size features.      *)

\* payload type -> frame duration in timestamp units (sample_rate / 50)
features == (0 :> 160) @@ (8 :> 160)

NewDetector == [codec_stat |-> <<>>, pt_pkt_stat |-> <<>>, last_seq |-> <<>>]

bump(f, k) == IF k \in DOMAIN f THEN [f EXCEPT ![k] = @ + 1] ELSE f @@ (k :> 1)

lookup(f, k) == IF k \in DOMAIN f THEN f[k] ELSE 0

\* CodecDetector::on_pkt; pkt.payload() has been found not to panic
on_pkt(det, raw) ==
    LET pt == rtp_payload_type(raw)
    IN  IF parse_rtp_event(payload(raw).buf) THEN det
        ELSE IF ~is_dynamic(pt)
        THEN IF pt \in DOMAIN features
             THEN [det EXCEPT !.codec_stat = bump(@, pt)]
             ELSE det
        ELSE IF rtp_seq(raw) = lookup(det.last_seq, rtp_ssrc(raw)) THEN det
        ELSE [det EXCEPT !.pt_pkt_stat = bump(@, pt),
                         !.last_seq = [k \in DOMAIN @ \cup {rtp_ssrc(raw)} |->
                                          IF k = rtp_ssrc(raw) THEN rtp_seq(raw) ELSE @[k]]]

\* CodecDetector::get_result: the payload types with a detected codec
get_result(det) ==
    {pt \in DOMAIN det.codec_stat :
        det.codec_stat[pt] > (lookup(det.pt_pkt_stat, pt) * 618) \div 1000}

----------------------------------------------------------------------------
(* CodecDetector (codec_detector.rs) over a profile of several codecs,     *)
(* with the payload sniffers is_amrwb and is_evs it calls.                 *)

\* bit i (from 0, most significant first) of a byte slice
bit(buf, i) == (buf[(i \div 8) + 1] \div (2 ^ (7 - (i % 8)))) % 2

AMR_PAYLOAD_SIZES == <<13, 14, 16, 18, 20, 21, 27, 32, 6>>
AMR_PAYLOAD_BE_BIT_SIZES == <<95, 103, 118, 134, 148, 159, 204, 244, 39>>
AMRWB_PAYLOAD_SIZES == <<18, 24, 33, 37, 41, 47, 51, 59, 61, 7>>
AMRWB_PAYLOAD_BE_BIT_SIZES == <<132, 177, 253, 285, 317, 365, 397, 461, 477, 40>>
EVS_PAYLOAD_SIZES_PRIMARY == <<6, 18, 20, 24, 33, 41, 61, 80, 120, 160, 240, 320>>
EVS_PAYLOAD_SIZES_AMRWBIO == <<7, 17, 23, 32, 36, 40, 46, 50, 58, 60>>

\* the table-of-contents loop of parse_bandwidth_efficient, from bit `pos`:
\* six bits per entry (F, four bits of frame type, Q)
RECURSIVE be_tocs(_, _, _, _)
be_tocs(buf, bit_size, pos, sum) ==
    IF 8 * Len(buf) - pos < 6 THEN [err |-> TRUE, pos |-> pos, sum |-> sum]
    ELSE LET idx == 8 * bit(buf, pos + 1) + 4 * bit(buf, pos + 2)
                    + 2 * bit(buf, pos + 3) + bit(buf, pos + 4)
         IN  IF idx + 1 > Len(bit_size) THEN [err |-> TRUE, pos |-> pos, sum |-> sum]
             ELSE IF bit(buf, pos) = 1
             THEN be_tocs(buf, bit_size, pos + 6, sum + bit_size[idx + 1])
             ELSE [err |-> FALSE, pos |-> pos + 6, sum |-> sum + bit_size[idx + 1]]

\* parse_bandwidth_efficient(data, bit_size): &data[4..] panics on a slice
\* of fewer than four bits; ok means Ok(_) with at least one frame
parse_bandwidth_efficient(buf, bit_size) ==
    IF 8 * Len(buf) < 4 THEN [panic |-> TRUE, ok |-> FALSE]
    ELSE LET t == be_tocs(buf, bit_size, 4, 0)
         IN  IF t.err \/ 8 * Len(buf) - t.pos < t.sum
             THEN [panic |-> FALSE, ok |-> FALSE]
             ELSE [panic |-> FALSE,
                   ok |-> \A i \in (t.pos + t.sum)..(8 * Len(buf) - 1) : bit(buf, i) = 0]

\* the frame types of the frames parse_bandwidth_efficient returns, one per
\* table-of-contents entry; none on Err
parse_bandwidth_efficient_tocs(buf, bit_size) ==
    IF ~parse_bandwidth_efficient(buf, bit_size).ok THEN <<>>
    ELSE LET t == be_tocs(buf, bit_size, 4, 0)
         IN  [i \in 1..((t.pos - 4) \div 6) |->
                 8 * bit(buf, 6 * i - 1) + 4 * bit(buf, 6 * i)
                 + 2 * bit(buf, 6 * i + 1) + bit(buf, 6 * i + 2)]

\* the table-of-contents loop of parse_octect_aligned, from byte k
RECURSIVE oa_tocs(_, _, _, _)
oa_tocs(buf, payload_size, k, sizes) ==
    IF k > Len(buf) THEN [err |-> TRUE, k |-> k, sizes |-> sizes]
    ELSE LET idx == (buf[k] \div 8) % 16
         IN  IF idx + 1 > Len(payload_size) THEN [err |-> TRUE, k |-> k, sizes |-> sizes]
             ELSE IF buf[k] \div 128 = 1
             THEN oa_tocs(buf, payload_size, k + 1, Append(sizes, payload_size[idx + 1]))
             ELSE [err |-> FALSE, k |-> k + 1, sizes |-> Append(sizes, payload_size[idx + 1])]

RECURSIVE SeqSum(_)
SeqSum(s) == IF s = <<>> THEN 0 ELSE Head(s) + SeqSum(Tail(s))

\* parse_octect_aligned(data, payload_size).is_ok()
parse_octect_aligned(buf, payload_size) ==
    IF buf = <<>> \/ buf[1] # 240 THEN FALSE
    ELSE LET t == oa_tocs(buf, payload_size, 2, <<>>)
         IN  /\ ~t.err
             /\ Len(buf) = SeqSum(t.sizes) + 1
             \* the frames are cut from what is left after the header bytes
             /\ Len(buf) - (t.k - 1) >= SeqSum(t.sizes)

\* the frames of parse_octect_aligned: one per table-of-contents entry, cut
\* one after the other from the bytes that follow the entries; none on Err
RECURSIVE cut_frames(_, _)
cut_frames(data, sizes) ==
    IF sizes = <<>> THEN <<>>
    ELSE <<SubSeq(data, 1, Head(sizes))>>
         \o cut_frames(SubSeq(data, Head(sizes) + 1, Len(data)), Tail(sizes))

parse_octect_aligned_frames(buf, payload_size) ==
    IF ~parse_octect_aligned(buf, payload_size) THEN <<>>
    ELSE LET t == oa_tocs(buf, payload_size, 2, <<>>)
         IN  cut_frames(SubSeq(buf, t.k, Len(buf)), t.sizes)

\* is_amrwb(data): octet aligned first, bandwidth efficient when that fails
is_amrwb(buf) ==
    IF parse_octect_aligned(buf, AMRWB_PAYLOAD_SIZES) THEN [panic |-> FALSE, ok |-> TRUE]
    ELSE parse_bandwidth_efficient(buf, AMRWB_PAYLOAD_BE_BIT_SIZES)

\* the table-of-contents loop of parse_evs in header-full mode
RECURSIVE evs_tocs(_, _)
evs_tocs(data, sizes) ==
    IF data = <<>> THEN [err |-> TRUE, data |-> data, sizes |-> sizes]
    ELSE LET toc  == Head(data)
             idx  == toc % 16
             tab  == IF (toc \div 32) % 2 = 0 THEN EVS_PAYLOAD_SIZES_PRIMARY
                     ELSE EVS_PAYLOAD_SIZES_AMRWBIO
             size == IF idx > Len(tab) - 1 THEN 1 ELSE tab[idx + 1]
         IN  IF (toc \div 64) % 2 = 1
             THEN evs_tocs(Tail(data), Append(sizes, size))
             ELSE [err |-> FALSE, data |-> Tail(data), sizes |-> Append(sizes, size)]

\* is_evs(data) = parse_evs(data).is_ok()
is_evs(buf) ==
    LET compat == \E i \in 1..Len(EVS_PAYLOAD_SIZES_PRIMARY) :
                      EVS_PAYLOAD_SIZES_PRIMARY[i] = Len(buf)
        t == IF compat THEN [err |-> FALSE, data |-> buf, sizes |-> <<Len(buf)>>]
             ELSE IF buf = <<>> THEN [err |-> TRUE, data |-> buf, sizes |-> <<>>]
             ELSE evs_tocs(IF buf[1] \div 128 = 1 THEN Tail(buf) ELSE buf, <<>>)
    IN  /\ ~t.err
        /\ \/ t.data = <<0>> \/ t.data = <<>> \/ Len(t.data) = Len(t.sizes)
           \/ Len(t.data) >= SeqSum(t.sizes)

\* the frame sizes parse_evs collects and the bytes left after the entries
evs_sizes(buf) ==
    LET compat == \E i \in 1..Len(EVS_PAYLOAD_SIZES_PRIMARY) :
                      EVS_PAYLOAD_SIZES_PRIMARY[i] = Len(buf)
    IN  IF compat THEN [err |-> FALSE, data |-> buf, sizes |-> <<Len(buf)>>]
        ELSE IF buf = <<>> THEN [err |-> TRUE, data |-> buf, sizes |-> <<>>]
        ELSE evs_tocs(IF buf[1] \div 128 = 1 THEN Tail(buf) ELSE buf, <<>>)

\* the frames of parse_evs: none on Err, and none when the bytes left are
\* [0], empty, or as many as there are entries
parse_evs_frames(buf) ==
    LET t == evs_sizes(buf)
    IN  IF ~is_evs(buf) THEN <<>>
        ELSE IF t.data = <<0>> \/ t.data = <<>> \/ Len(t.data) = Len(t.sizes) THEN <<>>
        ELSE cut_frames(t.data, t.sizes)

\* CodecFeature as get_features_from_yaml leaves it (payload_size may be None)
CodecFeature(payload_size, delta_time, sid_frame) ==
    [payload_size |-> payload_size, delta_time |-> delta_time, sid_frame |-> sid_frame]

\* one entry of CodecDetector.features: a Codec (name, payload_type binding
\* or None) and its features; the profile is the sequence of the entries
Codec(name, payload_type, fts) == [name |-> name, payload_type |-> payload_type, fts |-> fts]

RECURSIVE gcd(_, _)
gcd(a, b) == IF b = 0 THEN a ELSE gcd(b, a % b)

\* mutant: a fraction kept as it was given, not reduced
Fraction_unreduced(num, den) ==
    IF den = 0 THEN (IF num = 0 THEN <<"NaN">> ELSE <<"Infinity">>)
    ELSE <<"Rational", num, den>>

\* Fraction::new(num, den): reduced, with its values for a zero denominator
Fraction(num, den) ==
    IF den = 0 THEN (IF num = 0 THEN <<"NaN">> ELSE <<"Infinity">>)
    ELSE <<"Rational", num \div gcd(num, den), den \div gcd(num, den)>>

\* CodecFeature.ratio after set_radio
ratio(payload_size, delta_time) ==
    IF payload_size = None THEN <<"None">> ELSE Fraction(delta_time, payload_size)

max_uniq_payload_size_num == 3

\* CodecDetector::new() after get_features_from_yaml has loaded `profile`
CodecDetector_new(profile) ==
    [features |-> profile, pt_pkt_stat |-> <<>>, codec_stat |-> <<>>,
     last_seq |-> <<>>, last_ts |-> <<>>, payload_size_stat |-> <<>>]

\* HashMap::insert
insert(f, k, v) == [x \in DOMAIN f \cup {k} |-> IF x = k THEN v ELSE f[x]]

\* CodecDetector::add_payload_len
add_payload_len(d, pt, len) ==
    [d EXCEPT !.payload_size_stat =
        insert(@, pt, (IF pt \in DOMAIN @ THEN @[pt] ELSE {}) \cup {len})]

\* update_codec_stat without the insertion of a first map for the type
update_codec_stat_known(d, pt, codec) ==
    IF pt \in DOMAIN d.codec_stat /\ codec \in DOMAIN d.codec_stat[pt]
    THEN [d EXCEPT !.codec_stat[pt][codec] = @ + 1]
    ELSE d

\* CodecDetector::update_codec_stat: a codec missing from an existing
\* map of the payload type is not added
update_codec_stat(d, pt, codec) ==
    IF pt \notin DOMAIN d.codec_stat
    THEN [d EXCEPT !.codec_stat = insert(@, pt, codec :> 1)]
    ELSE IF codec \in DOMAIN d.codec_stat[pt]
    THEN [d EXCEPT !.codec_stat[pt][codec] = @ + 1]
    ELSE d

\* CodecDetector::is_dynamic_len
is_dynamic_len(d, pt) == Cardinality(d.payload_size_stat[pt]) > max_uniq_payload_size_num

\* CodecDetector::last_seq and last_ts: 0 for a source not seen yet
last_seq(d, ssrc) == IF ssrc \in DOMAIN d.last_seq THEN d.last_seq[ssrc] ELSE 0
last_ts(d, ssrc) == IF ssrc \in DOMAIN d.last_ts THEN d.last_ts[ssrc] ELSE 0

\* features.iter().find(|(c, _)| c.name == name): index of the first codec of
\* that name, 0 for None
find_codec_named(fs, name) ==
    IF \E i \in 1..Len(fs) : fs[i].name = name
    THEN CHOOSE i \in 1..Len(fs) : fs[i].name = name /\ \A j \in 1..(i - 1) : fs[j].name # name
    ELSE 0

\* features.iter().find(|(c, _)| c.payload_type == Some(pt)): index of the
\* first codec declared with that payload type, 0 for None
find_codec_typed(fs, pt) ==
    IF \E i \in 1..Len(fs) : fs[i].payload_type = pt
    THEN CHOOSE i \in 1..Len(fs) :
             fs[i].payload_type = pt /\ \A j \in 1..(i - 1) : fs[j].payload_type # pt
    ELSE 0

\* the match of one stored feature against the packet's feature
ft_match(ft, payload_len, delta_time) ==
    IF payload_len # None
    THEN \/ ratio(ft.payload_size, ft.delta_time) = ratio(payload_len, delta_time)
            /\ ~ft.sid_frame
         \/ ft.sid_frame /\ payload_len = ft.payload_size
    ELSE ft.delta_time = delta_time

\* the update of codec_stat that counts a codec once and no more
credit_once(stat, pt, codec) ==
    IF pt \notin DOMAIN stat THEN insert(stat, pt, codec :> 1)
    ELSE IF codec \in DOMAIN stat[pt] THEN stat
    ELSE [stat EXCEPT ![pt] = insert(@, codec, 1)]

\* codec_stat[pt][codec] += 1, inserting what is missing
credit(stat, pt, codec) ==
    IF pt \notin DOMAIN stat THEN insert(stat, pt, codec :> 1)
    ELSE IF codec \in DOMAIN stat[pt] THEN [stat EXCEPT ![pt][codec] = @ + 1]
    ELSE [stat EXCEPT ![pt] = insert(@, codec, 1)]

\* the (codec, feature) pairs of a profile from codec i, feature j on, in the
\* order the two loops of on_pkt visit them
RECURSIVE ft_pairs(_, _, _)
ft_pairs(fs, i, j) ==
    IF i > Len(fs) THEN <<>>
    ELSE IF j > Len(fs[i].fts) THEN ft_pairs(fs, i + 1, 1)
    ELSE <<(<<i, j>>)>> \o ft_pairs(fs, i, j + 1)

\* the matching loops of on_pkt over pairs k.., st = [stat, amrwb, panic]
RECURSIVE match_loop(_, _, _, _, _, _, _, _)
match_loop(fs, pairs, k, pt, buf, payload_len, delta_time, st) ==
    IF k > Len(pairs) \/ st.panic THEN st
    ELSE
    LET codec == pairs[k][1]
        ft    == fs[codec].fts[pairs[k][2]]
        cname == fs[codec].name
        sniff == is_amrwb(buf)
        evs   == find_codec_named(fs, "evs")
        next  ==
            IF ~ft_match(ft, payload_len, delta_time) THEN st
            ELSE IF cname \notin {"amrwb", "evs"}
            THEN [st EXCEPT !.stat = credit(@, pt, codec)]
            ELSE IF sniff.panic THEN [st EXCEPT !.panic = TRUE]
            ELSE IF sniff.ok /\ cname = "amrwb"
            THEN [st EXCEPT !.amrwb = TRUE,
                            !.stat = credit(@, pt, find_codec_named(fs, "amrwb"))]
            ELSE IF is_evs(buf) /\ ~st.amrwb
            THEN IF evs = 0 THEN [st EXCEPT !.panic = TRUE]
                 ELSE [st EXCEPT !.stat = credit(@, pt, evs)]
            ELSE st
    IN  match_loop(fs, pairs, k + 1, pt, buf, payload_len, delta_time, next)

\* CodecDetector::on_pkt(pkt) for the packet of bytes raw: the detector
\* after the call, and whether the call panicked
detector_on_pkt(d, raw) ==
    LET p     == payload(raw)
        pt    == rtp_payload_type(raw)
        ssrc  == rtp_ssrc(raw)
        same  == [panic |-> FALSE, det |-> d]
    IN  IF p.panic THEN [panic |-> TRUE, det |-> d]
        ELSE IF parse_rtp_event(p.buf) THEN same
        ELSE IF ~is_dynamic(pt)
        THEN LET codec == find_codec_typed(d.features, pt)
             IN  IF codec # 0 THEN [panic |-> FALSE, det |-> update_codec_stat(d, pt, codec)]
                 ELSE same
        ELSE IF rtp_seq(raw) = last_seq(d, ssrc) THEN same
        ELSE
        LET d1 == add_payload_len(d, pt, Len(p.buf))
            d2 == [d1 EXCEPT !.pt_pkt_stat =
                       insert(@, pt, (IF pt \in DOMAIN @ THEN @[pt] ELSE 0) + 1)]
            delta_time == wrapping_sub(rtp_ts(raw), last_ts(d, ssrc))
                          \div ((rtp_seq(raw) - last_seq(d, ssrc) + U16) % U16)
            d3 == [d2 EXCEPT !.last_seq = insert(@, ssrc, rtp_seq(raw)),
                             !.last_ts = insert(@, ssrc, rtp_ts(raw))]
            payload_len == IF is_dynamic_len(d3, pt) THEN None ELSE Len(p.buf) % U16
            st == match_loop(d.features, ft_pairs(d.features, 1, 1), 1, pt, p.buf,
                             payload_len, delta_time,
                             [stat |-> d3.codec_stat, amrwb |-> FALSE, panic |-> FALSE])
        IN  [panic |-> st.panic, det |-> [d3 EXCEPT !.codec_stat = st.stat]]

\* get_result with a verdict for a count that meets the threshold
detector_get_result_meets(d, order) ==
    LET crossing(pt, k) ==
            /\ order[k] \in DOMAIN d.codec_stat[pt]
            /\ d.codec_stat[pt][order[k]] >=
                   ((IF pt \in DOMAIN d.pt_pkt_stat THEN d.pt_pkt_stat[pt] ELSE 0) * 618)
                       \div 1000
        pts == {pt \in DOMAIN d.codec_stat : \E k \in 1..Len(order) : crossing(pt, k)}
    IN  [pt \in pts |->
            order[CHOOSE k \in 1..Len(order) :
                      crossing(pt, k) /\ \A j \in 1..(k - 1) : ~crossing(pt, j)]]

\* CodecDetector::get_result, the maps of codec_stat visited in `order` (a
\* sequence of the codecs; std HashMap fixes no iteration order): the
\* payload types with a verdict, each mapped to its codec
detector_get_result(d, order) ==
    LET crossing(pt, k) ==
            /\ order[k] \in DOMAIN d.codec_stat[pt]
            /\ d.codec_stat[pt][order[k]] >
                   ((IF pt \in DOMAIN d.pt_pkt_stat THEN d.pt_pkt_stat[pt] ELSE 0) * 618)
                       \div 1000
        pts == {pt \in DOMAIN d.codec_stat : \E k \in 1..Len(order) : crossing(pt, k)}
    IN  [pt \in pts |->
            order[CHOOSE k \in 1..Len(order) :
                      crossing(pt, k) /\ \A j \in 1..(k - 1) : ~crossing(pt, j)]]

\* the iteration orders a map over the codecs of a profile can have
Orders(fs) ==
    {o \in [1..Len(fs) -> 1..Len(fs)] : \A i, j \in 1..Len(fs) : i # j => o[i] # o[j]}

----------------------------------------------------------------------------
(* RtpdumpReader (lib.rs)                                                  *)

\* RtpdumpReader before try_new
NoReader == [phase |-> "none", file |-> <<>>, pos |-> 0, codecs |-> {},
             cache |-> <<>>, ret |-> "none", cause |-> ""]

\* the detection pass of try_new over the records from k on
RECURSIVE scan(_, _, _, _, _)
scan(file, k, cs, last, det) ==
    IF k > Len(file) THEN [chls |-> cs, det |-> det, panic |-> FALSE, cause |-> ""]
    ELSE
    LET raw == file[k]
    IN  IF Len(raw) < 12
        THEN [chls |-> cs, det |-> det, panic |-> TRUE, cause |-> "header"]
        ELSE
        LET i     == find_chl(cs, rtp_ssrc(raw))
            seen  == [seq |-> rtp_seq(raw), ts |-> rtp_ts(raw)]
            cs1   == IF i = 0
                     THEN Append(cs, NewChannel(rtp_ssrc(raw), 0, rtp_ts(raw), 0))
                     ELSE [cs EXCEPT ![i] =
                              [@ EXCEPT !.start = IF rtp_ts(raw) < @ THEN rtp_ts(raw) ELSE @,
                                        !.end = IF cs[i].end = 0 \/ rtp_seq(raw) > last[i].seq
                                                THEN rtp_ts(raw) ELSE @]]
            last1 == IF i = 0 THEN Append(last, seen) ELSE [last EXCEPT ![i] = seen]
        IN  IF payload(raw).panic
            THEN [chls |-> cs1, det |-> det, panic |-> TRUE, cause |-> "payload"]
            ELSE scan(file, k + 1, cs1, last1, on_pkt(det, raw))

\* how next_packet ends
Ret(cs, pos, cache, ret, out) ==
    [chls |-> cs, pos |-> pos, cache |-> cache, ret |-> ret, out |-> out,
     panic |-> FALSE, cause |-> ""]

Panic(cs, pos, cause) ==
    [chls |-> cs, pos |-> pos, cache |-> <<>>, ret |-> "none", out |-> <<>>,
     panic |-> TRUE, cause |-> cause]

\* get_all_pkts into the cache, then a frame from the cache or end of stream
drain(cs, pos, oc) ==
    With(get_all_pkts(cs, oc), LAMBDA r :
        IF r.panic THEN Panic(r.chls, pos, "get_pkts")
        ELSE IF r.out # <<>> THEN Ret(r.chls, pos, Tail(r.out), "frame", <<Head(r.out)>>)
        ELSE Ret(r.chls, pos, <<>>, "eos", <<>>))

RECURSIVE read_loop(_, _, _, _, _)
\* one iteration of the loop of next_packet
read_iter(file, codecs, cs, pos, oc) ==
    IF all_chl_finished(cs) THEN drain(cs, pos, oc)
    ELSE IF pos >= Len(file) THEN drain(cs, pos, oc)          \* read_rd_pkt fails
    ELSE
    LET data == file[pos + 1]
    IN  IF ~parse_rtp(data) THEN Panic(cs, pos + 1, "parse_rtp")   \* unwrap()
        ELSE IF parse_rtp_event(payload(data).buf)
        THEN read_loop(file, codecs, cs, pos + 1, oc)
        ELSE
        LET added == demuxer_add_pkt(cs, SimplePkt(data))
            need  == need_align(added)
            i     == find_chl(added, rtp_ssrc(data))
            pt    == rtp_payload_type(data)
        IN  IF pt \notin codecs \/ i = 0
            THEN Panic(added, pos + 1, "codec")                \* unreachable!
            ELSE
            LET timed == [added EXCEPT ![i].delta_time = features[pt]]
            IN  With(demuxer_get_pkts(timed, need, oc), LAMBDA r :
                    IF r.panic THEN Panic(r.chls, pos + 1, "get_pkts")
                    ELSE IF ~r.some THEN read_loop(file, codecs, r.chls, pos + 1, oc)
                    ELSE IF r.out = <<>> THEN Ret(r.chls, pos + 1, <<>>, "err", <<>>)
                    ELSE Ret(r.chls, pos + 1, Tail(r.out), "frame", <<Head(r.out)>>))

\* the loop of next_packet, entered with an empty cache
read_loop(file, codecs, cs, pos, oc) ==
    With(<<file, codecs, cs, pos, oc>>,
         LAMBDA a : read_iter(a[1], a[2], a[3], a[4], a[5]))

\* RtpdumpReader::next_packet
next_packet(r, cs, oc) ==
    IF r.cache # <<>>
    THEN Ret(cs, r.pos, Tail(r.cache), "frame", <<Head(r.cache)>>)
    ELSE read_loop(r.file, r.codecs, cs, r.pos, oc)

----------------------------------------------------------------------------
(* History kept for the properties                                         *)

NoPkt == [seq |-> 0, ts |-> 0, ssrc |-> 0, real |-> FALSE]

NoRel == [last |-> NoPkt, any |-> FALSE, real_seen |-> FALSE, accepted |-> {}]

InitOp == [kind |-> "init", chl |-> 0, pkt |-> NoPkt, cnt |-> 0,
           pre |-> <<>>, out |-> <<>>, before |-> NoRel,
           exit |-> "", mid |-> <<>>, mid_out |-> <<>>]

\* the packets given to on_pkt so far: how many, the latest, the timestamp
\* increment of the second, and whether they are one steady stream (one
\* source, one payload type, one payload size, consecutive sequence numbers,
\* one timestamp increment)
NoneObserved == [n |-> 0, last |-> <<>>, inc |-> 0, steady |-> TRUE]

observe(h, raw) ==
    [n      |-> h.n + 1,
     last   |-> raw,
     inc    |-> IF h.n = 1 THEN wrapping_sub(rtp_ts(raw), rtp_ts(h.last)) ELSE h.inc,
     steady |-> /\ h.steady
                /\ h.n > 0 =>
                     /\ rtp_ssrc(raw) = rtp_ssrc(h.last)
                     /\ rtp_payload_type(raw) = rtp_payload_type(h.last)
                     /\ Len(raw) = Len(h.last)
                     /\ rtp_seq(raw) = seq_wrapping_add(rtp_seq(h.last), 1)
                     /\ h.n > 1 => wrapping_sub(rtp_ts(raw), rtp_ts(h.last)) = h.inc]

HasReal(out) == \E i \in 1..Len(out) : out[i].real

\* the release history of a channel after it released `out`
released(r, out) ==
    IF out = <<>> THEN r
    ELSE [r EXCEPT !.last = out[Len(out)], !.any = TRUE,
                   !.real_seen = @ \/ HasReal(out)]

accept(r, c, pkt) ==
    IF window_reject(c, pkt) THEN r ELSE [r EXCEPT !.accepted = @ \cup {pkt.ts}]

----------------------------------------------------------------------------
(* One Channel driven directly: any sequence of add_pkt and get_pkts       *)

MaxAdds == 2
MaxGets == 2
MaxCnt == 3

SSRC0 == 0
SeqVals == {0, 1}
TsVals == {0, 1, 2, U32 - 1}
DeltaTimes == {1, 2}
\* (start, end): the default channel, a plain window, a window that wraps
Windows == {<<0, 0>>, <<0, 2>>, <<U32 - 1, 1>>}

ChlInit ==
    /\ \E dt \in DeltaTimes, w \in Windows :
           chls = <<NewChannel(SSRC0, dt, w[1], w[2])>>
    /\ op = InitOp
    /\ rel = <<NoRel>>
    /\ panicked = FALSE
    /\ overflow_checks \in BOOLEAN
    /\ calls = [add |-> 0, get |-> 0]
    /\ nchls = <<>>
    /\ rd = NoReader
    /\ detector = CodecDetector_new(<<>>)
    /\ observed = NoneObserved

\* Channel::add_pkt on channel i, with the history it leaves
AddPktTo(i, pkt) ==
    /\ chls' = [chls EXCEPT ![i] = add_pkt(@, pkt)]
    /\ op' = [InitOp EXCEPT !.kind = "add", !.chl = i, !.pkt = pkt,
                             !.pre = chls[i], !.before = rel[i]]
    /\ rel' = [rel EXCEPT ![i] = accept(@, chls[i], pkt)]
    /\ UNCHANGED <<panicked, overflow_checks, nchls, rd, detector, observed>>

\* Channel::get_pkts(cnt) on channel i, with the history it leaves
GetPktsOf(i, cnt) ==
    LET r == get_pkts(chls[i], cnt, overflow_checks)
    IN  /\ chls' = [chls EXCEPT ![i] = r.chl]
        /\ panicked' = r.panic
        /\ op' = [InitOp EXCEPT !.kind = "get", !.chl = i, !.cnt = cnt,
                                 !.pre = chls[i], !.out = r.out, !.before = rel[i],
                                 !.exit = r.exit, !.mid = r.mid, !.mid_out = r.mid_out]
        /\ rel' = [rel EXCEPT ![i] = released(@, r.out)]
        /\ UNCHANGED <<overflow_checks, nchls, rd, detector, observed>>

ChlAddPkt(pkt) ==
    /\ ~panicked
    /\ calls.add < MaxAdds
    /\ AddPktTo(1, pkt)
    /\ calls' = [calls EXCEPT !.add = @ + 1]

ChlGetPkts(cnt) ==
    /\ ~panicked
    /\ calls.get < MaxGets
    /\ GetPktsOf(1, cnt)
    /\ calls' = [calls EXCEPT !.get = @ + 1]

ChlNext ==
    \/ \E s \in SeqVals, t \in TsVals : ChlAddPkt(RealPkt(s, t, SSRC0))
    \/ \E n \in 0..MaxCnt : ChlGetPkts(n)

SpecChl == ChlInit /\ [][ChlNext]_vars

----------------------------------------------------------------------------
(* A channel that is offered only packets its window rejects, and is       *)
(* asked for frames for ever (the caller keeps pulling)                    *)

IdleWindows == Windows \cup {<<1, 2>>, <<0, 1>>}

IdleInit ==
    /\ \E dt \in DeltaTimes, w \in IdleWindows :
           chls = <<NewChannel(SSRC0, dt, w[1], w[2])>>
    /\ op = InitOp
    /\ rel = <<NoRel>>
    /\ panicked = FALSE
    /\ overflow_checks \in BOOLEAN
    /\ calls = [add |-> 0, get |-> 0]
    /\ nchls = <<>>
    /\ rd = NoReader
    /\ detector = CodecDetector_new(<<>>)
    /\ observed = NoneObserved

IdleAddPkt(pkt) ==
    /\ ~panicked
    /\ window_reject(chls[1], pkt)
    /\ AddPktTo(1, pkt)
    /\ UNCHANGED calls

IdleGetPkts(cnt) ==
    /\ ~panicked
    /\ GetPktsOf(1, cnt)
    /\ UNCHANGED calls

IdleNext ==
    \/ \E s \in SeqVals, t \in TsVals : IdleAddPkt(RealPkt(s, t, SSRC0))
    \/ \E n \in 0..MaxCnt : IdleGetPkts(n)

SpecIdle ==
    IdleInit /\ [][IdleNext]_vars /\ WF_vars(\E n \in 1..MaxCnt : IdleGetPkts(n))

----------------------------------------------------------------------------
(* The single-gap scenario: delta_time = 1, sequence numbers 0..3 at       *)
(* timestamps 0, 1, 2, 4, each packet fed once, in any order               *)

MaxGapCnt == 6

GapPkts == {RealPkt(0, 0, SSRC0), RealPkt(1, 1, SSRC0),
            RealPkt(2, 2, SSRC0), RealPkt(3, 4, SSRC0)}
\* (start, end): the default channel, a window ending at the last packet,
\* a window ending later
GapWindows == {<<0, 0>>, <<0, 4>>, <<0, 9>>}

GapInit ==
    /\ \E w \in GapWindows : chls = <<NewChannel(SSRC0, 1, w[1], w[2])>>
    /\ op = InitOp
    /\ rel = <<NoRel>>
    /\ panicked = FALSE
    /\ overflow_checks \in BOOLEAN
    /\ calls = [add |-> 0, get |-> 0]
    /\ nchls = <<>>
    /\ rd = NoReader
    /\ detector = CodecDetector_new(<<>>)
    /\ observed = NoneObserved

GapAddPkt(pkt) ==
    /\ ~panicked
    /\ pkt.ts \notin rel[1].accepted
    /\ AddPktTo(1, pkt)
    /\ calls' = [calls EXCEPT !.add = @ + 1]

GapGetPkts(cnt) ==
    /\ ~panicked
    /\ calls.get < MaxGets
    /\ GetPktsOf(1, cnt)
    /\ calls' = [calls EXCEPT !.get = @ + 1]

GapNext ==
    \/ \E pkt \in GapPkts : GapAddPkt(pkt)
    \/ \E n \in 0..MaxGapCnt : GapGetPkts(n)

SpecGap == GapInit /\ [][GapNext]_vars

----------------------------------------------------------------------------
(* A default channel fed packets with distinct sequence numbers, some      *)
(* next to the u16 wrap, in any order                                      *)

MaxSortAdds == 3

SortSeqs == {0, 1, 2, U16 - 2, U16 - 1}

SortInit ==
    /\ chls = <<NewChannel(SSRC0, 1, 0, 0)>>
    /\ op = InitOp
    /\ rel = <<NoRel>>
    /\ panicked = FALSE
    /\ overflow_checks \in BOOLEAN
    /\ calls = [add |-> 0, get |-> 0]
    /\ nchls = <<>>
    /\ rd = NoReader
    /\ detector = CodecDetector_new(<<>>)
    /\ observed = NoneObserved

SortAddPkt(pkt) ==
    /\ ~panicked
    /\ calls.add < MaxSortAdds
    /\ \A i \in 1..Len(chls[1].pkts) : chls[1].pkts[i].seq # pkt.seq
    /\ AddPktTo(1, pkt)
    /\ calls' = [calls EXCEPT !.add = @ + 1]

SortNext == \E s \in SortSeqs, t \in {0, 1} : SortAddPkt(RealPkt(s, t, SSRC0))

SpecSort == SortInit /\ [][SortNext]_vars

----------------------------------------------------------------------------
(* One Channel given packets in strictly increasing order of sequence      *)
(* number; op.exit is the branch add_pkt took.                             *)

MaxAscAdds == 3

AscSeqs == {0, 1, 2, 3, 5, U16 - 2, U16 - 1}

AscInit ==
    /\ chls = <<NewChannel(SSRC0, 1, 0, 0)>>
    /\ op = InitOp
    /\ rel = <<NoRel>>
    /\ panicked = FALSE
    /\ overflow_checks \in BOOLEAN
    /\ calls = [add |-> 0, get |-> 0]
    /\ nchls = <<>>
    /\ rd = NoReader
    /\ detector = CodecDetector_new(<<>>)
    /\ observed = NoneObserved

AscAddPkt(pkt) ==
    /\ ~panicked
    /\ calls.add < MaxAscAdds
    /\ op.kind = "add" => pkt.seq > op.pkt.seq
    /\ chls' = [chls EXCEPT ![1] = add_pkt(@, pkt)]
    /\ op' = [InitOp EXCEPT !.kind = "add", !.chl = 1, !.pkt = pkt, !.pre = chls[1],
                             !.before = rel[1],
                             !.exit = IF window_reject(chls[1], pkt) THEN "reject"
                                      ELSE enqueue_path(chls[1].pkts, pkt)]
    /\ rel' = [rel EXCEPT ![1] = accept(@, chls[1], pkt)]
    /\ calls' = [calls EXCEPT !.add = @ + 1]
    /\ UNCHANGED <<panicked, overflow_checks, nchls, rd, detector, observed>>

AscNext == \E s \in AscSeqs, t \in {0, 1} : AscAddPkt(RealPkt(s, t, SSRC0))

SpecAsc == AscInit /\ [][AscNext]_vars

----------------------------------------------------------------------------
(* One Channel that does not reach its end, given consecutive packets in   *)
(* order and asked for N frames at a time; calls.n is N and calls.released *)
(* the number of frames get_pkts has returned so far.                      *)

MaxDebtAdds == 3
MaxDebtGets == 4

DebtCnts == {1, 2, 3}

DebtInit ==
    /\ chls = <<NewChannel(SSRC0, 1, 0, 9)>>
    /\ op = InitOp
    /\ rel = <<NoRel>>
    /\ panicked = FALSE
    /\ overflow_checks \in BOOLEAN
    /\ \E n \in DebtCnts : calls = [add |-> 0, get |-> 0, n |-> n, released |-> 0]
    /\ nchls = <<>>
    /\ rd = NoReader
    /\ detector = CodecDetector_new(<<>>)
    /\ observed = NoneObserved

\* the next packet: sequence number and timestamp one more than the last
DebtAddPkt ==
    /\ ~panicked
    /\ calls.add < MaxDebtAdds
    /\ AddPktTo(1, RealPkt(calls.add, calls.add, SSRC0))
    /\ calls' = [calls EXCEPT !.add = @ + 1]

DebtGetPkts ==
    /\ ~panicked
    /\ calls.get < MaxDebtGets
    /\ GetPktsOf(1, calls.n)
    /\ calls' = [calls EXCEPT !.get = @ + 1,
                              !.released = @ + Len(get_pkts(chls[1], calls.n,
                                                            overflow_checks).out)]

DebtNext == DebtAddPkt \/ DebtGetPkts

SpecDebt == DebtInit /\ [][DebtNext]_vars

----------------------------------------------------------------------------
(* One Channel fed packets that may repeat a timestamp or come late;       *)
(* calls.sent holds the timestamps of the frames released from the first   *)
(* real frame on, calls.repeat whether one of them was released twice.     *)

MaxStaleAdds == 3

StaleCnts == {1, 3}

\* the frames of `out` from the first real one on (all of them when a real
\* frame was released before)
RECURSIVE from_first_real(_, _)
from_first_real(out, real_seen) ==
    IF out = <<>> \/ real_seen \/ Head(out).real THEN out
    ELSE from_first_real(Tail(out), real_seen)

StaleInit ==
    /\ \E dt \in DeltaTimes, w \in Windows :
           chls = <<NewChannel(SSRC0, dt, w[1], w[2])>>
    /\ op = InitOp
    /\ rel = <<NoRel>>
    /\ panicked = FALSE
    /\ overflow_checks \in BOOLEAN
    /\ calls = [add |-> 0, get |-> 0, sent |-> {}, repeat |-> FALSE]
    /\ nchls = <<>>
    /\ rd = NoReader
    /\ detector = CodecDetector_new(<<>>)
    /\ observed = NoneObserved

StaleAddPkt(pkt) ==
    /\ ~panicked
    /\ calls.add < MaxStaleAdds
    /\ AddPktTo(1, pkt)
    /\ calls' = [calls EXCEPT !.add = @ + 1]

StaleGetPkts(cnt) ==
    /\ ~panicked
    /\ calls.get < MaxGets
    /\ GetPktsOf(1, cnt)
    /\ LET fs == from_first_real(get_pkts(chls[1], cnt, overflow_checks).out,
                                 rel[1].real_seen)
            ts == {fs[j].ts : j \in 1..Len(fs)}
       IN  calls' = [calls EXCEPT !.get = @ + 1,
                                  !.sent = @ \cup ts,
                                  !.repeat = \/ @
                                             \/ ts \cap calls.sent # {}
                                             \/ Cardinality(ts) < Len(fs)]

StaleNext ==
    \/ \E t \in TsVals : StaleAddPkt(RealPkt(t % U16, t, SSRC0))
    \/ \E n \in StaleCnts : StaleGetPkts(n)

SpecStale == StaleInit /\ [][StaleNext]_vars

----------------------------------------------------------------------------
(* RtpDemuxer of demuxer.rs over two channels, with packets of a third,    *)
(* unknown SSRC                                                            *)

DemuxSsrcs == {1, 2, 3}
\* (seq, ts) of the packets offered; the last one is more than
\* sort_uniq_queue_size frames after the first
DemuxPkts == {<<0, 0>>, <<1, 1>>, <<2, 300>>}

of_ssrc(out, ssrc) == SelectSeq(out, LAMBDA f : f.ssrc = ssrc)

DemuxInit ==
    /\ \E w \in {<<0, 0>>, <<0, 300>>} :
           chls = <<NewChannel(1, 1, w[1], w[2]), NewChannel(2, 1, 0, 1)>>
    /\ op = InitOp
    /\ rel = <<NoRel, NoRel>>
    /\ panicked = FALSE
    /\ overflow_checks \in BOOLEAN
    /\ calls = [add |-> 0, get |-> 0]
    /\ nchls = <<>>
    /\ rd = NoReader
    /\ detector = CodecDetector_new(<<>>)
    /\ observed = NoneObserved

DemuxAddPkt(pkt) ==
    /\ ~panicked
    /\ calls.add < MaxAdds
    /\ chls' = demuxer_add_pkt(chls, pkt)
    /\ op' = [InitOp EXCEPT !.kind = "demux_add", !.chl = find_chl(chls, pkt.ssrc),
                             !.pkt = pkt, !.pre = chls]
    /\ rel' = [i \in 1..Len(chls) |->
                  IF i = find_chl(chls, pkt.ssrc) THEN accept(rel[i], chls[i], pkt) ELSE rel[i]]
    /\ calls' = [calls EXCEPT !.add = @ + 1]
    /\ UNCHANGED <<panicked, overflow_checks, nchls, rd, detector, observed>>

DemuxReturn(kind, r, need) ==
    /\ chls' = r.chls
    /\ panicked' = r.panic
    /\ op' = [InitOp EXCEPT !.kind = kind, !.pre = chls, !.out = r.out,
                             !.cnt = IF need THEN 1 ELSE 0,
                             !.exit = IF "some" \notin DOMAIN r THEN ""
                                      ELSE IF r.some THEN "some" ELSE "none"]
    /\ rel' = [i \in 1..Len(chls) |-> released(rel[i], of_ssrc(r.out, chls[i].ssrc))]
    /\ calls' = [calls EXCEPT !.get = @ + 1]
    /\ UNCHANGED <<overflow_checks, nchls, rd, detector, observed>>

DemuxGetPkts(need) ==
    /\ ~panicked
    /\ calls.get < MaxGets
    /\ DemuxReturn("demux_get", demuxer_get_pkts(chls, need, overflow_checks), need)

DemuxGetAllPkts ==
    /\ ~panicked
    /\ calls.get < MaxGets
    /\ DemuxReturn("demux_get_all", get_all_pkts(chls, overflow_checks), FALSE)

DemuxNext ==
    \/ \E ssrc \in DemuxSsrcs, p \in DemuxPkts : DemuxAddPkt(RealPkt(p[1], p[2], ssrc))
    \/ \E need \in BOOLEAN : DemuxGetPkts(need)
    \/ DemuxGetAllPkts

SpecDemux == DemuxInit /\ [][DemuxNext]_vars

----------------------------------------------------------------------------
(* RtpDemuxer of demuxer.rs over one channel or two, given packets only:   *)
(* what add_pkt returns is need_align of the channels it leaves            *)

MaxAlignAdds == 3

AlignInit ==
    /\ chls \in {<<NewChannel(1, 1, 0, 0)>>,
                 <<NewChannel(1, 1, 0, 0), NewChannel(2, 1, 0, 1)>>}
    /\ op = InitOp
    /\ rel = [i \in 1..Len(chls) |-> NoRel]
    /\ panicked = FALSE
    /\ overflow_checks \in BOOLEAN
    /\ calls = [add |-> 0, get |-> 0]
    /\ nchls = <<>>
    /\ rd = NoReader
    /\ detector = CodecDetector_new(<<>>)
    /\ observed = NoneObserved

AlignAddPkt(pkt) ==
    /\ calls.add < MaxAlignAdds
    /\ chls' = demuxer_add_pkt(chls, pkt)
    /\ op' = [InitOp EXCEPT !.kind = "demux_add", !.chl = find_chl(chls, pkt.ssrc),
                             !.pkt = pkt, !.pre = chls,
                             !.exit = IF need_align(demuxer_add_pkt(chls, pkt))
                                      THEN "true" ELSE "false"]
    /\ rel' = [i \in 1..Len(chls) |->
                  IF i = find_chl(chls, pkt.ssrc) THEN accept(rel[i], chls[i], pkt) ELSE rel[i]]
    /\ calls' = [calls EXCEPT !.add = @ + 1]
    /\ UNCHANGED <<panicked, overflow_checks, nchls, rd, detector, observed>>

AlignNext ==
    \E ssrc \in DemuxSsrcs, p \in DemuxPkts : AlignAddPkt(RealPkt(p[1], p[2], ssrc))

SpecAlign == AlignInit /\ [][AlignNext]_vars

----------------------------------------------------------------------------
(* RtpDemuxer of demuxer_new.rs over two channels, with packets of a       *)
(* third, unknown SSRC                                                     *)

MaxNewAdds == 2
MaxNewGets == 2

\* (first_packet, last_packet) of a channel, in ms
Lifetimes == {<<0, 40>>, <<20, 60>>}
CaptureTimes == {0, 20, 40, 60}
NewPkts == {<<0, 0>>, <<1, 1>>, <<2, 3>>}

\* the caller's queue at get_all_pkts: empty, or holding a frame already
OutQueues == {<<>>, <<RealPkt(9, 9, 3)>>}

NewInit ==
    /\ \E l1 \in Lifetimes, l2 \in Lifetimes :
           nchls = <<NewChannelNew(1, 1, l1[1], l1[2], 1), NewChannelNew(2, 1, l2[1], l2[2], 1)>>
    /\ chls = <<>>
    /\ op = InitOp
    /\ rel = <<>>
    /\ panicked = FALSE
    /\ overflow_checks \in BOOLEAN
    /\ calls = [add |-> 0, get |-> 0]
    /\ rd = NoReader
    /\ detector = CodecDetector_new(<<>>)
    /\ observed = NoneObserved

NewAddPkt(pkt, ts) ==
    LET r == new_demuxer_add_pkt(nchls, pkt, ts, overflow_checks)
    IN  /\ ~panicked
        /\ calls.add < MaxNewAdds
        /\ nchls' = r.chls
        /\ panicked' = r.panic
        /\ op' = [InitOp EXCEPT !.kind = "new_add", !.chl = find_chl(nchls, pkt.ssrc),
                                 !.pkt = pkt, !.cnt = ts, !.pre = nchls,
                                 !.out = IF r.some THEN <<r.pkt>> ELSE <<>>]
        /\ calls' = [calls EXCEPT !.add = @ + 1]
        /\ UNCHANGED <<chls, rel, overflow_checks, rd, detector, observed>>

NewGetPkt ==
    LET r == new_demuxer_get_pkt(nchls, overflow_checks)
    IN  /\ ~panicked
        /\ calls.get < MaxNewGets
        /\ nchls' = r.chls
        /\ panicked' = r.panic
        /\ op' = [InitOp EXCEPT !.kind = "new_get", !.pre = nchls,
                                 !.out = IF r.some THEN <<r.pkt>> ELSE <<>>]
        /\ calls' = [calls EXCEPT !.get = @ + 1]
        /\ UNCHANGED <<chls, rel, overflow_checks, rd, detector, observed>>

NewGetAllPkts(queue) ==
    LET r == new_get_all_pkts(nchls, queue)
    IN  /\ ~panicked
        /\ calls.get < MaxNewGets
        /\ nchls' = r.chls
        /\ op' = [InitOp EXCEPT !.kind = "new_get_all", !.pre = nchls, !.mid = queue,
                                 !.out = r.out]
        /\ calls' = [calls EXCEPT !.get = @ + 1]
        /\ UNCHANGED <<chls, rel, panicked, overflow_checks, rd, detector, observed>>

NewNext ==
    \/ \E ssrc \in DemuxSsrcs, p \in NewPkts, ts \in CaptureTimes :
           NewAddPkt(RealPkt(p[1], p[2], ssrc), ts)
    \/ NewGetPkt
    \/ \E queue \in OutQueues : NewGetAllPkts(queue)

SpecNew == NewInit /\ [][NewNext]_vars

----------------------------------------------------------------------------
(* A silent leg: the channel of SSRC 1 receives every packet, at           *)
(* increasing arrival times, and the channel of SSRC 2, whose first packet *)
(* is still to come, is only synced.                                       *)

MaxSyncAdds == 3

\* arrival-time increments in ms: half, one, one and a half and two frame durations
ArrivalSteps == {10, 20, 30, 40}
\* (first_packet, last_packet) of the silent channel, in ms
SilentLifetimes == {<<40, 80>>, <<1000, 1040>>}

SyncInit ==
    /\ \E l \in SilentLifetimes :
           nchls = <<NewChannelNew(1, 1, 0, 2000, 1), NewChannelNew(2, 1, l[1], l[2], 1)>>
    /\ chls = <<>>
    /\ op = InitOp
    /\ rel = <<>>
    /\ panicked = FALSE
    /\ overflow_checks \in BOOLEAN
    /\ calls = [add |-> 0, get |-> 0]
    /\ rd = NoReader
    /\ detector = CodecDetector_new(<<>>)
    /\ observed = NoneObserved

\* RtpDemuxer::add_pkt of a packet of SSRC 1 arriving step ms after the last one
SyncAddPkt(pkt, step) ==
    LET ts == nchls[1].timestamp + step
        r  == new_demuxer_add_pkt(nchls, pkt, ts, overflow_checks)
    IN  /\ ~panicked
        /\ calls.add < MaxSyncAdds
        /\ nchls' = r.chls
        /\ panicked' = r.panic
        /\ op' = [InitOp EXCEPT !.kind = "new_add", !.chl = find_chl(nchls, pkt.ssrc),
                                 !.pkt = pkt, !.cnt = ts, !.pre = nchls,
                                 !.out = IF r.some THEN <<r.pkt>> ELSE <<>>]
        /\ calls' = [calls EXCEPT !.add = @ + 1]
        /\ UNCHANGED <<chls, rel, overflow_checks, rd, detector, observed>>

SyncNext ==
    \E p \in NewPkts, step \in ArrivalSteps : SyncAddPkt(RealPkt(p[1], p[2], 1), step)

SpecSync == SyncInit /\ [][SyncNext]_vars

----------------------------------------------------------------------------
(* Two channels that buffer up to two frames and end 20 ms into the        *)
(* capture: packets are added to either and frames are asked of the        *)
(* RtpDemuxer of demuxer_new.rs.                                           *)

MaxPickAdds == 4
MaxPickGets == 1

PickSsrcs == {1, 2}
PickTimes == {0, 20}
PickPkts == {<<0, 0>>, <<1, 1>>}

PickInit ==
    /\ nchls = <<NewChannelNew(1, 1, 0, 20, 2), NewChannelNew(2, 1, 0, 20, 2)>>
    /\ chls = <<>>
    /\ op = InitOp
    /\ rel = <<>>
    /\ panicked = FALSE
    /\ overflow_checks \in BOOLEAN
    /\ calls = [add |-> 0, get |-> 0]
    /\ rd = NoReader
    /\ detector = CodecDetector_new(<<>>)
    /\ observed = NoneObserved

PickAddPkt(pkt, ts) ==
    LET r == new_demuxer_add_pkt(nchls, pkt, ts, overflow_checks)
    IN  /\ ~panicked
        /\ calls.add < MaxPickAdds
        /\ nchls' = r.chls
        /\ panicked' = r.panic
        /\ op' = [InitOp EXCEPT !.kind = "new_add", !.chl = find_chl(nchls, pkt.ssrc),
                                 !.pkt = pkt, !.cnt = ts, !.pre = nchls,
                                 !.out = IF r.some THEN <<r.pkt>> ELSE <<>>]
        /\ calls' = [calls EXCEPT !.add = @ + 1]
        /\ UNCHANGED <<chls, rel, overflow_checks, rd, detector, observed>>

PickGetPkt ==
    LET r == new_demuxer_get_pkt(nchls, overflow_checks)
    IN  /\ ~panicked
        /\ calls.get < MaxPickGets
        /\ nchls' = r.chls
        /\ panicked' = r.panic
        /\ op' = [InitOp EXCEPT !.kind = "new_get", !.pre = nchls,
                                 !.out = IF r.some THEN <<r.pkt>> ELSE <<>>]
        /\ calls' = [calls EXCEPT !.get = @ + 1]
        /\ UNCHANGED <<chls, rel, overflow_checks, rd, detector, observed>>

PickNext ==
    \/ \E ssrc \in PickSsrcs, p \in PickPkts, ts \in PickTimes :
           PickAddPkt(RealPkt(p[1], p[2], ssrc), ts)
    \/ PickGetPkt

SpecPick == PickInit /\ [][PickNext]_vars

----------------------------------------------------------------------------
(* One Channel of demuxer_new.rs that ends 20 ms into the capture: packets *)
(* are added to it and frames are asked of it.  op.mid holds the channel   *)
(* as get_pkt finds it, calls.asc whether every packet added so far came   *)
(* after the one before it.                                                *)

MaxFillAdds == 3
MaxFillGets == 2

FillWindows == {1, 2}
FillTimes == {0, 20}
FillPkts == {<<0, 0>>, <<1, 2>>, <<2, 4>>, <<3, 6>>}

FillInit ==
    /\ \E dt \in DeltaTimes, max \in FillWindows :
           nchls = <<NewChannelNew(1, dt, 0, 20, max)>>
    /\ chls = <<>>
    /\ op = InitOp
    /\ rel = <<>>
    /\ panicked = FALSE
    /\ overflow_checks \in BOOLEAN
    /\ calls = [add |-> 0, get |-> 0, asc |-> TRUE, last |-> None]
    /\ rd = NoReader
    /\ detector = CodecDetector_new(<<>>)
    /\ observed = NoneObserved

\* Channel::add_pkt
FillAddPkt(pkt, ts) ==
    LET c     == nchls[1]
        timed == [c EXCEPT !.timestamp = ts]
        r     == new_add_pkt(c, pkt, ts, overflow_checks)
    IN  /\ ~panicked
        /\ calls.add < MaxFillAdds
        /\ nchls' = <<r.chl>>
        /\ panicked' = r.panic
        /\ op' = [InitOp EXCEPT !.kind = "fill_add", !.chl = 1, !.pkt = pkt, !.cnt = ts,
                                 !.pre = nchls,
                                 !.mid = IF window_reject(c, pkt) THEN <<>>
                                         ELSE <<[timed EXCEPT !.ingress = enqueue(@, pkt)]>>,
                                 !.out = IF r.some THEN <<r.pkt>> ELSE <<>>]
        /\ calls' = [calls EXCEPT !.add = @ + 1,
                                  !.asc = @ /\ pkt.ts > calls.last,
                                  !.last = pkt.ts]
        /\ UNCHANGED <<chls, rel, overflow_checks, rd, detector, observed>>

\* Channel::get_pkt
FillGetPkt ==
    LET r == new_get_pkt(nchls[1], overflow_checks)
    IN  /\ ~panicked
        /\ calls.get < MaxFillGets
        /\ nchls' = <<r.chl>>
        /\ panicked' = r.panic
        /\ op' = [InitOp EXCEPT !.kind = "fill_get", !.chl = 1, !.pre = nchls,
                                 !.mid = nchls,
                                 !.out = IF r.some THEN <<r.pkt>> ELSE <<>>]
        /\ calls' = [calls EXCEPT !.get = @ + 1]
        /\ UNCHANGED <<chls, rel, overflow_checks, rd, detector, observed>>

FillNext ==
    \/ \E p \in FillPkts, ts \in FillTimes : FillAddPkt(RealPkt(p[1], p[2], 1), ts)
    \/ FillGetPkt

SpecFill == FillInit /\ [][FillNext]_vars

----------------------------------------------------------------------------
(* SeqNum of rtp.rs: a u16 whose + and - wrap (overflowing_add and         *)
(* overflowing_sub with the overflow flag dropped).  A difference of two   *)
(* sequence numbers is taken and added back to the subtrahend.             *)

\* a difference that stops at 0
seq_sub_saturating(a, b) == IF a < b THEN 0 ELSE a - b

SeqNum_add(a, b) == (a + b) % U16

SeqNum_sub(a, b) == (a - b) % U16

SeqOperands == {0, 1, 2, 3, (U16 \div 2) - 1, U16 \div 2, U16 - 2, U16 - 1}

\* op.mid is the pair (a, b)
SeqInit ==
    /\ \E a \in SeqOperands, b \in SeqOperands : op = [InitOp EXCEPT !.mid = <<a, b>>]
    /\ nchls = <<>>
    /\ chls = <<>>
    /\ rel = <<>>
    /\ panicked = FALSE
    /\ overflow_checks \in BOOLEAN
    /\ calls = [add |-> 0, get |-> 0]
    /\ rd = NoReader
    /\ detector = CodecDetector_new(<<>>)
    /\ observed = NoneObserved

\* SeqNum(a) - SeqNum(b)
SeqSub ==
    /\ op.kind = "init"
    /\ op' = [op EXCEPT !.kind = "seq_sub", !.out = <<SeqNum_sub(op.mid[1], op.mid[2])>>]
    /\ UNCHANGED <<chls, nchls, rel, panicked, overflow_checks, calls, rd, detector, observed>>

\* SeqNum(b) + SeqNum(the difference)
SeqAdd ==
    /\ op.kind = "seq_sub"
    /\ op' = [op EXCEPT !.kind = "seq_add", !.cnt = op.out[1],
                        !.out = <<SeqNum_add(op.mid[2], op.out[1])>>]
    /\ UNCHANGED <<chls, nchls, rel, panicked, overflow_checks, calls, rd, detector, observed>>

SeqNext == SeqSub \/ SeqAdd

SpecSeq == SeqInit /\ [][SeqNext]_vars

----------------------------------------------------------------------------
(* parse_octect_aligned of symphonia-bundle-amr given octet-aligned        *)
(* payloads: the byte 0xF0, a chain of table-of-contents entries with      *)
(* frame types of the table, and the frames.  A frame of type i has        *)
(* payload_size[i] - 1 bytes (RFC 4867: the table counts the entry's own   *)
(* byte), or payload_size[i] bytes when the table is read as frame sizes.  *)

MaxTocs == 2

OaTables == {AMR_PAYLOAD_SIZES, AMRWB_PAYLOAD_SIZES}

\* chains of 1..MaxTocs frame types of a table
TocChains(tab) ==
    UNION {[1..n -> 0..(Len(tab) - 1)] : n \in 1..MaxTocs}

\* entry i of a chain: F set on all but the last, the frame type, Q set
TocByte(chain, i) == (IF i < Len(chain) THEN 128 ELSE 0) + 8 * chain[i] + 4

Zeros(n) == [i \in 1..n |-> 0]

OaPayload(tab, chain, own_byte) ==
    <<240>> \o [i \in 1..Len(chain) |-> TocByte(chain, i)]
            \o Zeros(SeqSum([i \in 1..Len(chain) |->
                                 tab[chain[i] + 1] - (IF own_byte THEN 1 ELSE 0)]))

\* op.pre is the chain, op.mid the payload, op.before the table
OaInit ==
    /\ \E tab \in OaTables : \E chain \in TocChains(tab), own_byte \in BOOLEAN :
           op = [InitOp EXCEPT !.pre = chain, !.mid = OaPayload(tab, chain, own_byte),
                               !.before = tab]
    /\ nchls = <<>>
    /\ chls = <<>>
    /\ rel = <<>>
    /\ panicked = FALSE
    /\ overflow_checks \in BOOLEAN
    /\ calls = [add |-> 0, get |-> 0]
    /\ rd = NoReader
    /\ detector = CodecDetector_new(<<>>)
    /\ observed = NoneObserved

\* parse_octect_aligned(data, payload_size)
OaParse ==
    /\ op.kind = "init"
    /\ op' = [op EXCEPT !.kind = "parse_oa",
                        !.exit = IF parse_octect_aligned(op.mid, op.before) THEN "ok" ELSE "err",
                        !.out = parse_octect_aligned_frames(op.mid, op.before)]
    /\ UNCHANGED <<chls, nchls, rel, panicked, overflow_checks, calls, rd, detector, observed>>

OaNext == OaParse

SpecOa == OaInit /\ [][OaNext]_vars

----------------------------------------------------------------------------
(* The payload parsers given a chain of table-of-contents entries of which *)
(* at least one has a frame type outside the codec's table:                *)
(* parse_octect_aligned and parse_bandwidth_efficient of                   *)
(* symphonia-bundle-amr with the AMR and AMR-WB tables, and parse_evs of   *)
(* symphonia-bundle-evs in header-full framing.                            *)

AmrParsers == {"amr_oa", "amrwb_oa", "amr_be", "amrwb_be"}

TableOf(parser) ==
    CASE parser = "amr_oa" -> AMR_PAYLOAD_SIZES
      [] parser = "amrwb_oa" -> AMRWB_PAYLOAD_SIZES
      [] parser = "amr_be" -> AMR_PAYLOAD_BE_BIT_SIZES
      [] parser = "amrwb_be" -> AMRWB_PAYLOAD_BE_BIT_SIZES

\* chains of 1..MaxTocs four-bit frame types, one at least outside a table of n
BadChains(n) ==
    {c \in UNION {[1..k -> 0..15] : k \in 1..MaxTocs} : \E i \in 1..Len(c) : c[i] >= n}

\* bytes that follow the entries
Trailing == {0, 1, 2}

\* the bits of a bandwidth-efficient payload: CMR 15, then F, the frame type
\* and Q of each entry, then zero bits up to a whole byte and n more bytes
BeBits(chain, n) ==
    LET entry(i) == <<IF i < Len(chain) THEN 1 ELSE 0,
                      (chain[i] \div 8) % 2, (chain[i] \div 4) % 2,
                      (chain[i] \div 2) % 2, chain[i] % 2, 1>>
        head == [j \in 1..(4 + 6 * Len(chain)) |->
                    IF j <= 4 THEN 1 ELSE entry(((j - 5) \div 6) + 1)[((j - 5) % 6) + 1]]
    IN  head \o Zeros((8 - (Len(head) % 8)) % 8) \o Zeros(8 * n)

BePayload(chain, n) ==
    LET bits == BeBits(chain, n)
    IN  [k \in 1..(Len(bits) \div 8) |->
            128 * bits[8 * k - 7] + 64 * bits[8 * k - 6] + 32 * bits[8 * k - 5]
            + 16 * bits[8 * k - 4] + 8 * bits[8 * k - 3] + 4 * bits[8 * k - 2]
            + 2 * bits[8 * k - 1] + bits[8 * k]]

OaBadPayload(chain, n) ==
    <<240>> \o [i \in 1..Len(chain) |-> TocByte(chain, i)] \o Zeros(n)

\* EVS entries: F on all but the last, the mode bit, the frame type
EvsPayload(chain, amrwbio, n) ==
    [i \in 1..Len(chain) |->
        (IF i < Len(chain) THEN 64 ELSE 0) + (IF amrwbio THEN 32 ELSE 0) + chain[i]]
    \o Zeros(n)

\* op.before is the parser, op.pre the chain, op.mid the payload
TocInit ==
    /\ \/ \E parser \in AmrParsers, n \in Trailing :
              \E chain \in BadChains(Len(TableOf(parser))) :
                  op = [InitOp EXCEPT !.before = parser, !.pre = chain,
                                      !.mid = IF parser \in {"amr_oa", "amrwb_oa"}
                                              THEN OaBadPayload(chain, n)
                                              ELSE BePayload(chain, n)]
       \/ \E amrwbio \in BOOLEAN, n \in Trailing :
              \E chain \in BadChains(Len(IF amrwbio THEN EVS_PAYLOAD_SIZES_AMRWBIO
                                                     ELSE EVS_PAYLOAD_SIZES_PRIMARY)) :
                  op = [InitOp EXCEPT !.before = "evs", !.pre = chain,
                                      !.mid = EvsPayload(chain, amrwbio, n)]
    /\ nchls = <<>>
    /\ chls = <<>>
    /\ rel = <<>>
    /\ panicked = FALSE
    /\ overflow_checks \in BOOLEAN
    /\ calls = [add |-> 0, get |-> 0]
    /\ rd = NoReader
    /\ detector = CodecDetector_new(<<>>)
    /\ observed = NoneObserved

TocParseOa ==
    /\ op.kind = "init"
    /\ op.before \in {"amr_oa", "amrwb_oa"}
    /\ op' = [op EXCEPT !.kind = "parse",
                        !.exit = IF parse_octect_aligned(op.mid, TableOf(op.before))
                                 THEN "ok" ELSE "err",
                        !.out = parse_octect_aligned_frames(op.mid, TableOf(op.before))]
    /\ UNCHANGED <<chls, nchls, rel, panicked, overflow_checks, calls, rd, detector, observed>>

TocParseBe ==
    LET r == parse_bandwidth_efficient(op.mid, TableOf(op.before))
    IN  /\ op.kind = "init"
        /\ op.before \in {"amr_be", "amrwb_be"}
        /\ op' = [op EXCEPT !.kind = "parse",
                            !.exit = IF r.ok THEN "ok" ELSE "err",
                            !.out = parse_bandwidth_efficient_tocs(op.mid, TableOf(op.before))]
        /\ panicked' = r.panic
        /\ UNCHANGED <<chls, nchls, rel, overflow_checks, calls, rd, detector, observed>>

TocParseEvs ==
    /\ op.kind = "init"
    /\ op.before = "evs"
    /\ op' = [op EXCEPT !.kind = "parse",
                        !.exit = IF is_evs(op.mid) THEN "ok" ELSE "err",
                        !.out = parse_evs_frames(op.mid)]
    /\ UNCHANGED <<chls, nchls, rel, panicked, overflow_checks, calls, rd, detector, observed>>

TocNext == TocParseOa \/ TocParseBe \/ TocParseEvs

SpecToc == TocInit /\ [][TocNext]_vars

----------------------------------------------------------------------------
(* parse_rtp and RtpPacket::payload of rtp.rs given packets with and       *)
(* without an extension header and padding.                                *)

\* what follows the 12 header bytes: an extension header (whole, or cut
\* short), the payload, the padding
ExtParts == {<<190, 222, 0, 0>>, <<190, 222, 0, 1, 7, 7, 7, 7>>, <<190, 222, 0, 1>>}
DataParts == {<<>>, <<5>>, <<5, 6>>, <<5, 6, 7>>}
PadParts == {<<>>, <<1>>, <<0, 2>>, <<0>>, <<9>>}

RtpInputs ==
    {RawPkt(128 + (IF p THEN 32 ELSE 0) + (IF x = <<>> THEN 0 ELSE 16), 96, 1, 160, 1,
            x \o d \o pad) :
        p \in BOOLEAN, x \in ExtParts \cup {<<>>}, d \in DataParts, pad \in PadParts}

\* op.mid is the packet
RtpInit ==
    /\ \E raw \in RtpInputs : op = [InitOp EXCEPT !.mid = raw]
    /\ nchls = <<>>
    /\ chls = <<>>
    /\ rel = <<>>
    /\ panicked = FALSE
    /\ overflow_checks \in BOOLEAN
    /\ calls = [add |-> 0, get |-> 0]
    /\ rd = NoReader
    /\ detector = CodecDetector_new(<<>>)
    /\ observed = NoneObserved

RtpParse ==
    /\ op.kind = "init"
    /\ op' = [op EXCEPT !.kind = "parse_rtp",
                        !.exit = IF parse_rtp(op.mid) THEN "ok" ELSE "err"]
    /\ UNCHANGED <<chls, nchls, rel, panicked, overflow_checks, calls, rd, detector, observed>>

\* payload() of a packet parse_rtp returned
RtpPayload ==
    LET r == payload(op.mid)
    IN  /\ op.kind = "parse_rtp"
        /\ op.exit = "ok"
        /\ op' = [op EXCEPT !.kind = "payload", !.out = r.buf]
        /\ panicked' = r.panic
        /\ UNCHANGED <<chls, nchls, rel, overflow_checks, calls, rd, detector, observed>>

RtpNext == RtpParse \/ RtpPayload

SpecRtp == RtpInit /\ [][RtpNext]_vars

----------------------------------------------------------------------------
(* RtpdumpReader over a capture: try_new, then next_packet for as long as  *)
(* the caller asks                                                         *)

MaxRecs == 3

\* one payload byte that is no event (an event has four)
Audio == <<255>>
V2 == 128
V2X == 144
V2P == 160

\* the records a capture is made of
Records ==
    {RawPkt(V2, 0, 0, 0, 1, Audio), RawPkt(V2, 0, 1, 160, 1, Audio),
     RawPkt(V2, 0, 2, 480, 1, Audio),
     RawPkt(V2, 0, 0, 0, 2, Audio), RawPkt(V2, 0, 1, 160, 2, Audio),
     \* a payload type with no codec configured, a second codec
     RawPkt(V2, 3, 3, 640, 1, Audio), RawPkt(V2, 8, 1, 160, 1, Audio),
     \* a telephone event on a dynamic payload type
     RawPkt(V2, 101, 4, 160, 1, <<1, 0, 0, 160>>),
     \* a truncated header, a header with no payload
     <<V2, 0, 0, 5>>, RawPkt(V2, 0, 1, 160, 1, <<>>),
     \* an extension of 2 words declared with 1 byte left, padding over everything
     RawPkt(V2X, 0, 1, 160, 1, <<190, 222, 0, 2, 7>>),
     RawPkt(V2P, 0, 1, 160, 1, <<7, 1>>), RawPkt(V2P, 0, 1, 160, 1, <<7, 9>>)}

Files == UNION {[1..n -> Records] : n \in 1..MaxRecs}

RdInit ==
    /\ rd = [NoReader EXCEPT !.phase = "start"]
    /\ detector = CodecDetector_new(<<>>)
    /\ observed = NoneObserved
    /\ chls = <<>>
    /\ op = InitOp
    /\ rel = <<>>
    /\ panicked = FALSE
    /\ overflow_checks \in BOOLEAN
    /\ calls = [add |-> 0, get |-> 0]
    /\ nchls = <<>>

\* RtpdumpReader::try_new(source), source holding the records of file
TryNew(file) ==
    /\ rd.phase = "start"
    /\ ~panicked
    /\ \E r \in {scan(file, 1, <<>>, <<>>, NewDetector)} :
       \E result \in {get_result(r.det)} :
        /\ chls' = r.chls
        /\ panicked' = (r.panic \/ (result # {} /\ Cardinality(result) # 1))
        /\ rd' = [rd EXCEPT !.file = file, !.codecs = result,
                            !.phase = IF r.panic THEN "start"
                                      ELSE IF result = {} THEN "failed"
                                      ELSE IF Cardinality(result) # 1 THEN "start"
                                      ELSE "ready",
                            !.cause = IF r.panic THEN r.cause
                                      ELSE IF result # {} /\ Cardinality(result) # 1
                                      THEN "todo" ELSE ""]
        /\ op' = [InitOp EXCEPT !.kind = "try_new"]
        /\ rel' = [i \in 1..Len(r.chls) |-> NoRel]
        /\ UNCHANGED <<overflow_checks, calls, nchls, detector, observed>>

NextPacket ==
    /\ rd.phase = "ready"
    /\ ~panicked
    /\ \E r \in {next_packet(rd, chls, overflow_checks)} :
        /\ chls' = r.chls
        /\ panicked' = r.panic
        /\ rd' = [rd EXCEPT !.pos = r.pos, !.cache = r.cache, !.ret = r.ret,
                            !.cause = r.cause]
        /\ op' = [InitOp EXCEPT !.kind = "next_packet", !.pre = chls, !.out = r.out]
        /\ rel' = [i \in 1..Len(chls) |-> released(rel[i], of_ssrc(r.out, chls[i].ssrc))]
        /\ UNCHANGED <<overflow_checks, calls, nchls, detector, observed>>

RdNext == (\E file \in Files : TryNew(file)) \/ NextPacket

SpecReader == RdInit /\ [][RdNext]_vars /\ WF_vars(NextPacket)

----------------------------------------------------------------------------
(* C1: with the accepted timestamps all a multiple of delta_time apart,    *)
(* every frame a channel releases after its first real frame is exactly    *)
(* delta_time (mod 2^32) after the frame released just before it, real or  *)
(* synthetic: no gap, no repeated slot.                                    *)

AlignedTs(S, dt) == \A a \in S, b \in S : (a - b) % dt = 0

\* frame i of `out` follows, delta_time later, the frame released before it,
\* for every frame released after the first real one
GapFree(before, out, dt) ==
    \A i \in 1..Len(out) :
        LET started == before.real_seen \/ \E j \in 1..(i - 1) : out[j].real
            prev    == IF i = 1 THEN before.last ELSE out[i - 1]
        IN  started => out[i].ts = wrapping_add(prev.ts, dt)

C1_GapFree ==
    (op.kind = "get" /\ AlignedTs(rel[op.chl].accepted, op.pre.delta_time))
        => GapFree(op.before, op.out, op.pre.delta_time)

\* a call that releases a synthetic frame and then a real one after an
\* earlier call has released a real frame
C1_Witness ==
    /\ op.kind = "get"
    /\ AlignedTs(rel[op.chl].accepted, op.pre.delta_time)
    /\ op.before.real_seen
    /\ \E i \in 1..Len(op.out), j \in 1..Len(op.out) :
           i < j /\ ~op.out[i].real /\ op.out[j].real

----------------------------------------------------------------------------
(* C4: add_pkt inserts the packet iff its timestamp lies inside the        *)
(* window, [start, end] when start < end and the wrapped interval          *)
(* (ts >= start or ts <= end) when start > end; outside the window the     *)
(* call changes nothing.                                                   *)

InsideWindow(c, ts) ==
    IF c.start < c.end
    THEN c.start <= ts /\ ts <= c.end
    ELSE ts >= c.start \/ ts <= c.end

C4_WindowIff ==
    (op.kind = "add" /\ op.pre.start # op.pre.end) =>
        LET post   == chls[op.chl]
            inside == InsideWindow(op.pre, op.pkt.ts)
        IN  /\ inside => /\ Len(post.pkts) = Len(op.pre.pkts) + 1
                         /\ \E i \in 1..Len(post.pkts) : post.pkts[i] = op.pkt
            /\ ~inside => post = op.pre /\ op.out = <<>>

----------------------------------------------------------------------------
(* C5: the gap between the buffer head and the last delivered timestamp    *)
(* is a wrapping difference: a head packet whose timestamp has wrapped     *)
(* past 2^32 (numerically below the last delivered timestamp, k >= 1       *)
(* frames later modulo 2^32) is delivered after k - 1 synthetic frames.    *)

C5_WrapGap ==
    (/\ op.kind = "get"
     /\ ~panicked
     /\ op.pre.last_ts # None
     /\ op.pre.pkts # <<>>
     /\ op.pre.missed = 0
     /\ Head(op.pre.pkts).ts < op.pre.last_ts
     /\ wrapping_sub(Head(op.pre.pkts).ts, op.pre.last_ts) % op.pre.delta_time = 0
     /\ wrapping_sub(Head(op.pre.pkts).ts, op.pre.last_ts) \div op.pre.delta_time \in 1..op.cnt)
    =>
        LET h  == Head(op.pre.pkts)
            dt == op.pre.delta_time
            k  == wrapping_sub(h.ts, op.pre.last_ts) \div dt
        IN  /\ Len(op.out) >= k
            /\ op.out[k] = h
            /\ \A i \in 1..(k - 1) :
                   op.out[i] = dummy_ts(h.ssrc, wrapping_add(op.pre.last_ts, i * dt))

----------------------------------------------------------------------------
(* C7: when get_pkts(N) finds the buffer empty after something was         *)
(* delivered: below `end` it synthesizes nothing and adds the shortfall    *)
(* N - (frames produced so far in the call) to missed; at or past `end`    *)
(* it appends exactly the shortfall as synthetic frames delta_time apart,  *)
(* advances the delivered cursor by as much and leaves missed unchanged.   *)

\* the call ended in the arm for an empty buffer with a delivered cursor
AtEmptyBuffer ==
    /\ op.kind = "get"
    /\ ~panicked
    /\ op.mid.pkts = <<>>
    /\ op.mid.last_ts # None
    /\ Len(op.mid_out) < op.cnt + op.mid.missed

Shortfall == saturating_sub(op.cnt, Len(op.mid_out))

C7_EmptyBufferArm ==
    AtEmptyBuffer =>
        LET m    == op.mid
            post == chls[op.chl]
            done == Len(op.mid_out)
        IN  IF m.last_ts < m.end
            THEN /\ op.out = op.mid_out
                 /\ post.missed = m.missed + Shortfall
                 /\ post.last_ts = m.last_ts
            ELSE /\ Len(op.out) = done + Shortfall
                 /\ SubSeq(op.out, 1, done) = op.mid_out
                 /\ \A i \in 1..Shortfall :
                        op.out[done + i] =
                            dummy_ts(m.ssrc, wrapping_add(m.last_ts, i * m.delta_time))
                 /\ post.last_ts = wrapping_add(m.last_ts, Shortfall * m.delta_time)
                 /\ post.missed = m.missed

\* a call that delivers a packet, drains the buffer exactly at `end` and
\* pads the batch with synthetic frames
C7_Witness ==
    /\ AtEmptyBuffer
    /\ op.mid.last_ts = op.mid.end
    /\ Len(op.mid_out) > 0
    /\ Shortfall > 0

\* a call that finds the buffer empty below `end` and records the debt
C7_WitnessDebt ==
    /\ AtEmptyBuffer
    /\ op.mid.last_ts < op.mid.end
    /\ Shortfall > 0
    /\ op.mid.missed > 0

----------------------------------------------------------------------------
(* C2: delta_time = 1, packets 0..3 at timestamps 0, 1, 2, 4 in any        *)
(* arrival order, then get_pkts(N) with N >= 5: the call releases the four *)
(* real packets and, among the frames with timestamps 0..4, exactly one    *)
(* synthetic frame, at timestamp 3, in the order 0, 1, 2, 3, 4.            *)

\* the first call for frames after all four packets have been buffered
SingleGapCall ==
    /\ op.kind = "get"
    /\ op.cnt >= 5
    /\ op.pre.delta_time = 1
    /\ op.pre.last_ts = None
    /\ {op.pre.pkts[i] : i \in 1..Len(op.pre.pkts)} = GapPkts
    /\ Len(op.pre.pkts) = 4

C2_SingleGap ==
    SingleGapCall =>
        /\ Len(op.out) >= 5
        /\ \A i \in 1..5 : op.out[i].ts = i - 1
        /\ \A i \in {1, 2, 3, 5} : op.out[i].real /\ op.out[i] \in GapPkts
        /\ ~op.out[4].real
        /\ \A i \in 6..Len(op.out) : op.out[i].ts \notin 0..4 /\ ~op.out[i].real
        /\ chls[op.chl].pkts = <<>>

\* the four packets arrived out of order and are then drained by one call
C2_Witness ==
    /\ SingleGapCall
    /\ op.before.accepted = {0, 1, 2, 4}
    /\ op.cnt = 5
    /\ Len(op.out) = 5

----------------------------------------------------------------------------
(* C3: packets with distinct sequence numbers added in any order leave the *)
(* reorder buffer holding exactly those packets in ascending order of      *)
(* sequence number, so that the buffer does not depend on the order of     *)
(* arrival.                                                                *)

AscendingBySeq(q) == \A i \in 1..Len(q), j \in 1..Len(q) : i < j => q[i].seq < q[j].seq

C3_SortedAnyOrder ==
    op.kind = "add" =>
        /\ AscendingBySeq(chls[op.chl].pkts)
        /\ Len(chls[op.chl].pkts) = calls.add

----------------------------------------------------------------------------
(* C6: a channel for which no packet is ever accepted still reaches the    *)
(* finished state (last delivered timestamp >= end); until then every      *)
(* frame it releases is synthetic, and missed is 0 once it is finished.    *)

NothingAccepted == rel[1].accepted = {}

C6_IdleFinishes ==
    /\ [](NothingAccepted) => <>(chl_finished(chls[1]))
    /\ [](NothingAccepted => \A i \in 1..Len(op.out) : ~op.out[i].real)
    /\ [](NothingAccepted /\ chl_finished(chls[1]) => chls[1].missed = 0)

\* the part of it that the code meets: only synthetic frames, and no debt
C6_IdleSynthetic ==
    NothingAccepted =>
        /\ \A i \in 1..Len(op.out) : ~op.out[i].real
        /\ chls[1].missed = 0
        /\ chls[1].last_ts = None

----------------------------------------------------------------------------
(* C8: RtpDemuxer.add_pkt forwards a packet to the channel whose SSRC      *)
(* equals the packet's SSRC and touches no other reorder buffer; a packet  *)
(* whose SSRC matches no channel is dropped, leaving every channel         *)
(* unchanged, without panicking.                                           *)

\* demuxer.rs
C8_RoutesBySsrcOld ==
    op.kind = "demux_add" =>
        /\ ~panicked
        /\ IF op.chl = 0 THEN chls = op.pre
           ELSE /\ op.pre[op.chl].ssrc = op.pkt.ssrc
                /\ chls = [op.pre EXCEPT ![op.chl] = add_pkt(@, op.pkt)]

C8_WitnessOld == op.kind = "demux_add" /\ op.chl = 0 /\ op.pre[1].pkts # <<>>

\* demuxer_new.rs
C8_RoutesBySsrc ==
    op.kind = "new_add" =>
        /\ ~panicked
        /\ \A j \in 1..Len(nchls) :
               j # op.chl => nchls[j].ingress = op.pre[j].ingress
        /\ op.chl # 0 => op.pre[op.chl].ssrc = op.pkt.ssrc

C8_WitnessPanic == op.kind = "new_add" /\ op.chl = 0 /\ panicked

----------------------------------------------------------------------------
(* C9: during detection and replay no single packet aborts the stream: a   *)
(* malformed RTP packet (truncated header, extension length overrunning    *)
(* the buffer, padding longer than the remaining bytes) or a packet whose  *)
(* payload type has no detected codec is skipped, and the reader goes on.  *)

\* the panics that one packet of the capture causes
PacketCauses == {"header", "payload", "parse_rtp", "codec"}

C9_PacketErrorsAbsorbed == ~(panicked /\ rd.cause \in PacketCauses)

\* the capture holds a packet that parse_rtp refuses and the reader aborted
C9_WitnessMalformed ==
    /\ panicked
    /\ rd.cause = "parse_rtp"
    /\ \E k \in 1..Len(rd.file) : ~parse_rtp(rd.file[k])

\* a well-formed packet of a payload type with no detected codec aborted it
C9_WitnessNoCodec ==
    /\ panicked
    /\ rd.cause = "codec"
    /\ \A k \in 1..Len(rd.file) : parse_rtp(rd.file[k])

----------------------------------------------------------------------------
(* C10: once the packet source is exhausted, repeated next_packet calls    *)
(* release the frames still held and then return end-of-stream after       *)
(* finitely many calls; when end-of-stream is returned every channel's     *)
(* reorder buffer is empty.                                                *)

Exhausted == rd.phase = "ready" /\ rd.pos = Len(rd.file)

BuffersEmpty == \A i \in 1..Len(chls) : chls[i].pkts = <<>>

C10_DrainEnds ==
    /\ Exhausted ~> (rd.ret = "eos")
    /\ [](rd.ret = "eos" => BuffersEmpty /\ rd.cache = <<>>)

\* what the code meets: the drain ends in end-of-stream unless a packet
\* aborted the reader, and the buffers are empty at end-of-stream
C10_DrainEndsUnlessAborted ==
    /\ Exhausted ~> (rd.ret = "eos" \/ panicked)
    /\ [](rd.ret = "eos" => BuffersEmpty /\ rd.cache = <<>>)

\* the last record of the capture aborted the reader
C10_WitnessAborted == Exhausted /\ panicked /\ rd.ret # "eos"

----------------------------------------------------------------------------
(* SpecDet: one CodecDetector, loaded with a profile, observing packets of *)
(* a few streams and asked for its result.                                 *)

MaxPkts == 4

\* payloads: two bytes that parse as an EVS frame list, one byte that does
\* not, a bandwidth-efficient AMR-WB SID frame, a telephone event
Two == <<0, 0>>
One == <<255>>
Sid7 == <<244, 192, 0, 0, 0, 0, 0>>
Event == <<1, 0, 0, 160>>

DynPt == 96
G729 == 18

\* packet k of a stream on the dynamic payload type from source 1:
\* consecutive sequence numbers, timestamps 4 apart, two bytes of payload
Stream(k) == RawPkt(V2, DynPt, k, 4 * k, 1, Two)

\* packet k of a stream of four-byte payloads that read as telephone events
EventStream(k) == RawPkt(V2, DynPt, k, 8 * k, 1, Event)

DetPkts ==
    {Stream(k) : k \in 0..MaxPkts}
    \cup {EventStream(k) : k \in 1..MaxPkts}
    \cup {\* other payload sizes on the same type and source, one of them empty
          RawPkt(V2, DynPt, 1, 14, 1, Sid7), RawPkt(V2, DynPt, 2, 9, 1, One),
          RawPkt(V2, DynPt, 4, 16, 1, <<>>),
          \* a second source
          RawPkt(V2, DynPt, 3, 12, 2, Two),
          \* a telephone event on the static type
          RawPkt(V2, G729, 1, 1, 1, Event),
          \* the static type, with and without payload
          RawPkt(V2, G729, 0, 0, 1, <<>>), RawPkt(V2, G729, 7, 99, 1, Two)}

\* a codec bound to the static type, a codec with one size and pace
StaticProfile ==
    <<Codec("g729", G729, <<CodecFeature(1, 1, FALSE)>>),
      Codec("opus", None, <<CodecFeature(2, 4, FALSE)>>)>>

\* a comfort-noise size of one codec meets the ratio of another
SidProfile ==
    <<Codec("amr", None, <<CodecFeature(2, 8, TRUE)>>),
      Codec("opus", None, <<CodecFeature(2, 4, FALSE)>>)>>

\* the two bitstream-compatible families, and the first without the second
WidebandProfile ==
    <<Codec("amrwb", None, <<CodecFeature(2, 4, FALSE)>>),
      Codec("evs", None, <<CodecFeature(2, 4, FALSE)>>)>>

AmrwbProfile == <<Codec("amrwb", None, <<CodecFeature(2, 4, FALSE)>>)>>

Profiles == {StaticProfile, SidProfile, WidebandProfile, AmrwbProfile}

DetInit ==
    /\ \E profile \in Profiles : detector = CodecDetector_new(profile)
    /\ observed = NoneObserved
    /\ chls = <<>>
    /\ op = InitOp
    /\ rel = <<>>
    /\ panicked = FALSE
    /\ overflow_checks = TRUE
    /\ calls = [add |-> 0, get |-> 0]
    /\ nchls = <<>>
    /\ rd = NoReader

\* CodecDetector::on_pkt(pkt), with the history it leaves
ObservePkt(raw) ==
    /\ ~panicked
    /\ \E r \in {detector_on_pkt(detector, raw)} :
        /\ detector' = r.det
        /\ panicked' = r.panic
        /\ observed' = observe(observed, raw)
        /\ op' = [InitOp EXCEPT !.kind = "on_pkt", !.pkt = raw, !.pre = detector]
        /\ calls' = [calls EXCEPT !.add = @ + 1]
        /\ UNCHANGED <<chls, rel, overflow_checks, nchls, rd>>

OnPkt(raw) ==
    /\ calls.add < MaxPkts
    /\ ObservePkt(raw)

\* CodecDetector::get_result(), its maps iterated in `order`
GetResult(order) ==
    /\ ~panicked
    /\ op' = [InitOp EXCEPT !.kind = "get_result", !.pre = detector,
                             !.out = detector_get_result(detector, order)]
    /\ UNCHANGED <<detector, observed, chls, rel, panicked, overflow_checks, calls, nchls, rd>>

DetNext ==
    \/ \E raw \in DetPkts : OnPkt(raw)
    \/ \E order \in Orders(detector.features) : GetResult(order)

SpecDet == DetInit /\ [][DetNext]_vars

----------------------------------------------------------------------------
(* One CodecDetector observing one stream on a dynamic payload type:       *)
(* consecutive sequence numbers from 1, each packet a payload size and a   *)
(* timestamp increment of its own.                                         *)

MaxMatchPkts == 5

MatchSizes == {0, 1, 2, 5}
MatchIncs == {0, 4, 8}

Body(n) == [i \in 1..n |-> 255]

\* a codec with several features, two of them of one ratio and two of one
\* pace, next to a codec with a comfort-noise size
MultiProfile ==
    <<Codec("opus", None, <<CodecFeature(1, 4, FALSE), CodecFeature(2, 8, FALSE),
                            CodecFeature(3, 8, FALSE)>>),
      Codec("amr", None, <<CodecFeature(5, 8, TRUE), CodecFeature(3, 4, FALSE)>>)>>

\* one feature for each codec
SingleProfile ==
    <<Codec("opus", None, <<CodecFeature(2, 8, FALSE)>>),
      Codec("amr", None, <<CodecFeature(5, 8, TRUE)>>)>>

MatchProfiles == {MultiProfile, SingleProfile}

MatchInit ==
    /\ \E profile \in MatchProfiles : detector = CodecDetector_new(profile)
    /\ observed = NoneObserved
    /\ chls = <<>>
    /\ op = InitOp
    /\ rel = <<>>
    /\ panicked = FALSE
    /\ overflow_checks = TRUE
    /\ calls = [add |-> 0, get |-> 0]
    /\ nchls = <<>>
    /\ rd = NoReader

\* on_pkt of the next packet of the stream
MatchOnPkt(size, inc) ==
    /\ calls.add < MaxMatchPkts
    /\ ObservePkt(RawPkt(V2, DynPt, calls.add + 1, last_ts(detector, 1) + inc, 1,
                         Body(size)))

MatchNext == \E size \in MatchSizes, inc \in MatchIncs : MatchOnPkt(size, inc)

SpecMatch == MatchInit /\ [][MatchNext]_vars

----------------------------------------------------------------------------
(* One CodecDetector loaded with the two bitstream-compatible families in  *)
(* either order, observing packets whose ratio matches the feature of      *)
(* both: the payload decides.                                              *)

MaxSniffPkts == 3

\* a bandwidth-efficient AMR-WB frame of mode 0 (132 bits): 18 bytes, which
\* is also the size of an EVS primary frame
Wb18 == <<240, 64>> \o [i \in 1..16 |-> 0]

\* payloads that both validators accept (Wb18), that only the AMR-WB
\* validator accepts (Sid7), that only the EVS validator accepts (Two),
\* that neither accepts (One)
SniffPayloads == {Wb18, Sid7, Two, One}

WbThenEvs ==
    <<Codec("amrwb", None, <<CodecFeature(1, 4, FALSE)>>),
      Codec("evs", None, <<CodecFeature(1, 4, FALSE)>>)>>

EvsThenWb ==
    <<Codec("evs", None, <<CodecFeature(1, 4, FALSE)>>),
      Codec("amrwb", None, <<CodecFeature(1, 4, FALSE)>>)>>

SniffProfiles == {WbThenEvs, EvsThenWb}

SniffInit ==
    /\ \E profile \in SniffProfiles : detector = CodecDetector_new(profile)
    /\ observed = NoneObserved
    /\ chls = <<>>
    /\ op = InitOp
    /\ rel = <<>>
    /\ panicked = FALSE
    /\ overflow_checks = TRUE
    /\ calls = [add |-> 0, get |-> 0]
    /\ nchls = <<>>
    /\ rd = NoReader

\* on_pkt of the next packet of the stream, its timestamp four units a
\* payload byte after the one before it
SniffOnPkt(body) ==
    /\ calls.add < MaxSniffPkts
    /\ ObservePkt(RawPkt(V2, DynPt, calls.add + 1,
                         last_ts(detector, 1) + 4 * Len(body), 1, body))

SniffNext == \E body \in SniffPayloads : SniffOnPkt(body)

SpecSniff == SniffInit /\ [][SniffNext]_vars

----------------------------------------------------------------------------
(* Four-byte payloads: a CodecDetector observing packets, and an           *)
(* RtpdumpReader replaying a capture, of audio, of telephone events and of *)
(* four-byte payloads whose first byte is no event code.                   *)

MaxEventPkts == 2

\* four bytes, the first beyond the last event code (Flash = 16)
NoEvent == <<200, 0, 0, 160>>

\* record k of a capture of the static payload type 0 from source 1
StaticRecords(k) ==
    {RawPkt(V2, 0, k, 160 * k, 1, Audio), RawPkt(V2, 0, k, 160 * k, 1, Event),
     RawPkt(V2, 0, k, 160 * k, 1, NoEvent)}

EventFiles ==
    {<<r1, r2, r3>> : r1 \in StaticRecords(1), r2 \in StaticRecords(2),
                      r3 \in StaticRecords(3)}

\* packets given to on_pkt: on the dynamic type and on a bound static type
EventPkts ==
    UNION {{RawPkt(V2, DynPt, k, 4 * k, 1, Two), RawPkt(V2, DynPt, k, 4 * k, 1, Event),
            RawPkt(V2, DynPt, k, 4 * k, 1, NoEvent), RawPkt(V2, G729, k, 4 * k, 1, Event)} :
              k \in 1..MaxEventPkts}

EventInit ==
    /\ rd = [NoReader EXCEPT !.phase = "start"]
    /\ detector = CodecDetector_new(StaticProfile)
    /\ observed = NoneObserved
    /\ chls = <<>>
    /\ op = InitOp
    /\ rel = <<>>
    /\ panicked = FALSE
    /\ overflow_checks \in BOOLEAN
    /\ calls = [add |-> 0, get |-> 0]
    /\ nchls = <<>>

EventOnPkt(raw) ==
    /\ calls.add < MaxEventPkts
    /\ ObservePkt(raw)

EventNext ==
    \/ \E raw \in EventPkts : EventOnPkt(raw)
    \/ \E file \in EventFiles : TryNew(file)
    \/ NextPacket

SpecEvent == EventInit /\ [][EventNext]_vars


----------------------------------------------------------------------------
\* the codecs of a profile in the order of their declaration
Declared(fs) == [i \in 1..Len(fs) |-> i]

\* on_pkt has just returned from a packet that is no telephone event
NonEventObserved ==
    /\ op.kind = "on_pkt"
    /\ ~panicked
    /\ ~parse_rtp_event(payload(op.pkt).buf)

\* the codec of the profile bound to the payload type of the last packet
BoundCodec ==
    find_codec_typed(detector.features, rtp_payload_type(op.pkt))

(* C11: once on_pkt has seen a packet that is no telephone event and whose *)
(* payload type is static and is the payload_type binding of a codec of    *)
(* the profile, get_result maps that payload type to that codec, in every  *)
(* iteration order, whatever the packet's sequence number, timestamp or    *)
(* length and whatever was observed before.                                *)
C11_StaticBinding ==
    (/\ NonEventObserved
     /\ ~is_dynamic(rtp_payload_type(op.pkt))
     /\ BoundCodec # 0)
    => \A order \in Orders(detector.features) :
           LET result == detector_get_result(detector, order)
           IN  /\ rtp_payload_type(op.pkt) \in DOMAIN result
               /\ result[rtp_payload_type(op.pkt)] = BoundCodec

\* the very first packet, with an empty payload, settles the static type
C11_Witness ==
    /\ NonEventObserved
    /\ observed.n = 1
    /\ rtp_payload_type(op.pkt) = G729
    /\ payload(op.pkt).buf = <<>>
    /\ BoundCodec # 0
    /\ G729 \in DOMAIN detector_get_result(detector, Declared(detector.features))

----------------------------------------------------------------------------
(* SpecTally: a CodecDetector that has recorded many packets of one source *)
(* on the dynamic payload type, then observes more and is asked for its    *)
(* result.                                                                 *)

MaxTallyPkts == 1

\* total packet counts of the payload type, and match counts of a codec
\* (0: the codec has no entry in the map of the payload type)
Totals == {1, 1000}
Matches == {0, 1, 617, 618, 619, 1000}

\* the detector after t recorded packets of source 1 on the dynamic type, of
\* one and of two bytes, c1 of them credited to the first codec of SidProfile
\* and c2 to the second
Tallied(t, c1, c2) ==
    [features |-> SidProfile,
     pt_pkt_stat |-> DynPt :> t,
     codec_stat |-> IF c1 = 0 /\ c2 = 0 THEN <<>>
                    ELSE DynPt :> [c \in {c \in 1..2 : <<c1, c2>>[c] > 0} |-> <<c1, c2>>[c]],
     last_seq |-> 1 :> (t % U16),
     last_ts |-> 1 :> (4 * t),
     payload_size_stat |-> DynPt :> {1, 2}]

TallyInit ==
    /\ \E t \in Totals, c1 \in Matches, c2 \in Matches :
        /\ c1 <= t /\ c2 <= t
        /\ detector = Tallied(t, c1, c2)
        /\ observed = [n |-> t, last |-> RawPkt(V2, DynPt, t % U16, 4 * t, 1, Two),
                       inc |-> 4, steady |-> FALSE]
    /\ chls = <<>>
    /\ op = InitOp
    /\ rel = <<>>
    /\ panicked = FALSE
    /\ overflow_checks = TRUE
    /\ calls = [add |-> 0, get |-> 0]
    /\ nchls = <<>>
    /\ rd = NoReader

TallyOnPkt(raw) ==
    /\ calls.add < MaxTallyPkts
    /\ ObservePkt(raw)

TallyNext ==
    \/ \E raw \in DetPkts : TallyOnPkt(raw)
    \/ \E order \in Orders(detector.features) : GetResult(order)

SpecTally == TallyInit /\ [][TallyNext]_vars

----------------------------------------------------------------------------
\* the payload types the detector has counters for
CountedPts(d) == DOMAIN d.codec_stat \cup DOMAIN d.pt_pkt_stat

\* some codec's match count c and the total T of the type have c > 0.618 * T
AboveThreshold(d, pt) ==
    /\ pt \in DOMAIN d.codec_stat
    /\ \E codec \in DOMAIN d.codec_stat[pt] :
           1000 * d.codec_stat[pt][codec] >
               618 * (IF pt \in DOMAIN d.pt_pkt_stat THEN d.pt_pkt_stat[pt] ELSE 0)

(* C12: get_result contains a payload type if and only if the match count *)
(* c of some candidate codec and the total packet count T of the type have *)
(* c > 0.618 * T strictly; a type with no codec above the threshold (617   *)
(* of 1000, and 618 of 1000) is absent, in every iteration order.          *)
C12_ThresholdIff ==
    \A order \in Orders(detector.features) :
        \A pt \in CountedPts(detector) :
            pt \in DOMAIN detector_get_result(detector, order)
                <=> AboveThreshold(detector, pt)

\* get_result has left out a type with 617 matches in 1000 packets
C12_Witness ==
    /\ op.kind = "get_result"
    /\ detector.pt_pkt_stat[DynPt] = 1000
    /\ DynPt \in DOMAIN detector.codec_stat
    /\ \E codec \in DOMAIN detector.codec_stat[DynPt] : detector.codec_stat[DynPt][codec] = 617
    /\ \A codec \in DOMAIN detector.codec_stat[DynPt] : detector.codec_stat[DynPt][codec] <= 617
    /\ DynPt \notin DOMAIN op.out

\* get_result has a verdict for a type with 619 matches in 1000 packets
C12_WitnessAbove ==
    /\ op.kind = "get_result"
    /\ detector.pt_pkt_stat[DynPt] = 1000
    /\ DynPt \in DOMAIN detector.codec_stat
    /\ \A codec \in DOMAIN detector.codec_stat[DynPt] : detector.codec_stat[DynPt][codec] = 619
    /\ DynPt \in DOMAIN op.out

----------------------------------------------------------------------------
\* the payload size of the packets of the stream observed
StreamSize == Len(payload(observed.last).buf)

\* the codecs with a non-SID feature whose ratio is that of the stream
RatioCodecs ==
    {c \in 1..Len(detector.features) :
        \E j \in 1..Len(detector.features[c].fts) :
            LET ft == detector.features[c].fts[j]
            IN  /\ ~ft.sid_frame
                /\ ratio(ft.payload_size, ft.delta_time) = ratio(StreamSize, observed.inc)}

\* all the detector has observed since it was created is one stream of n >= 4
\* packets of one source on one dynamic payload type, with consecutive
\* sequence numbers, one payload size and one timestamp increment, whose
\* ratio is that of a non-SID feature of exactly one codec, not amrwb or evs
SteadyStream ==
    /\ observed.n >= 4
    /\ observed.steady
    /\ is_dynamic(rtp_payload_type(observed.last))
    /\ Cardinality(RatioCodecs) = 1
    /\ \A c \in RatioCodecs : detector.features[c].name \notin {"amrwb", "evs"}

\* get_result maps the payload type of the stream to its codec, in every order
StreamVerdict ==
    \A order \in Orders(detector.features) :
        LET result == detector_get_result(detector, order)
        IN  /\ rtp_payload_type(observed.last) \in DOMAIN result
            /\ result[rtp_payload_type(observed.last)] \in RatioCodecs

\* some codec has a SID feature of the payload size of the stream
SidSizeMet ==
    \E c \in 1..Len(detector.features) :
        \E j \in 1..Len(detector.features[c].fts) :
            /\ detector.features[c].fts[j].sid_frame
            /\ detector.features[c].fts[j].payload_size = StreamSize

(* C13: from a fresh detector, a stream of n >= 4 packets of one source on *)
(* one dynamic payload type, with consecutive sequence numbers, constant   *)
(* payload size and constant timestamp increment whose ratio is that of a  *)
(* non-SID feature of exactly one codec (not amrwb, not evs) makes         *)
(* get_result map the payload type to that codec.                          *)
C13_SteadyStream == SteadyStream => StreamVerdict

(* C13, amended: the same, for a stream whose payloads do not read as      *)
(* telephone events and whose payload size is the size of no SID feature   *)
(* of the profile.                                                         *)
C13_SteadyStreamNoSid ==
    (/\ SteadyStream
     /\ ~parse_rtp_event(payload(observed.last).buf)
     /\ ~SidSizeMet)
    => StreamVerdict

\* get_result has named the codec of a stream of four packets, the first of
\* them dropped for its sequence number 0
C13_Witness ==
    /\ SteadyStream
    /\ ~parse_rtp_event(payload(observed.last).buf)
    /\ ~SidSizeMet
    /\ op.kind = "get_result"
    /\ detector.pt_pkt_stat[DynPt] = observed.n - 1
    /\ DynPt \in DOMAIN op.out
    /\ op.out[DynPt] \in RatioCodecs

----------------------------------------------------------------------------
(* C14: the verdict of get_result for a payload type is the first codec,   *)
(* in the order of declaration in the profile, whose count exceeds the     *)
(* threshold: a function of the counters and the profile order alone.      *)
C14_DeclarationOrder ==
    op.kind = "get_result"
        => op.out = detector_get_result(op.pre, Declared(op.pre.features))

\* two codecs are above the threshold and get_result has returned the one
\* declared second
C14_WitnessSecond ==
    /\ op.kind = "get_result"
    /\ DynPt \in DOMAIN op.out
    /\ op.out[DynPt] = 2
    /\ detector_get_result(op.pre, Declared(op.pre.features))[DynPt] = 1

----------------------------------------------------------------------------
(* C15: on_pkt never fails, for any packet and any profile loaded: at      *)
(* worst the packet is ignored.                                            *)
C15_OnPktNeverFails == op.kind = "on_pkt" => ~panicked

\* on_pkt has panicked on a packet of two bytes under a profile that
\* declares amrwb and not evs
C15_WitnessNoEvs ==
    /\ op.kind = "on_pkt"
    /\ panicked
    /\ detector.features = AmrwbProfile
    /\ payload(op.pkt).buf = Two

\* on_pkt has panicked on a packet with an empty payload
C15_WitnessEmpty ==
    /\ op.kind = "on_pkt"
    /\ panicked
    /\ payload(op.pkt).buf = <<>>

----------------------------------------------------------------------------
\* on_pkt has just returned from a packet of a dynamic payload type that is
\* no telephone event
DynamicObserved ==
    /\ NonEventObserved
    /\ is_dynamic(rtp_payload_type(op.pkt))

\* a packet of the source has been recorded, and the sequence number
\* recorded last for the source is that of the packet
RepeatsLastSeq ==
    /\ rtp_ssrc(op.pkt) \in DOMAIN op.pre.last_seq
    /\ op.pre.last_seq[rtp_ssrc(op.pkt)] = rtp_seq(op.pkt)

(* C16: on_pkt discards a packet of a dynamic payload type as a duplicate, *)
(* changing nothing in the detector, exactly when an earlier packet of the *)
(* same source has been recorded and the sequence number recorded last for *)
(* that source is the packet's; the first packet of a source is never      *)
(* discarded, whatever its sequence number.                                *)
C16_DuplicateIff ==
    DynamicObserved => (detector = op.pre <=> RepeatsLastSeq)

\* the first packet of a source, with sequence number 0, has been discarded
C16_WitnessFirstZero ==
    /\ DynamicObserved
    /\ rtp_ssrc(op.pkt) \notin DOMAIN op.pre.last_seq
    /\ rtp_seq(op.pkt) = 0
    /\ detector = op.pre

\* a packet that repeats the sequence number recorded last has been discarded
C16_WitnessRepeat ==
    /\ DynamicObserved
    /\ RepeatsLastSeq
    /\ detector = op.pre

----------------------------------------------------------------------------
(* SpecBatch: an RtpDemuxer of demuxer.rs with two channels whose reorder  *)
(* buffers are nearly sort_uniq_queue_size frames long, given the frames   *)
(* still missing at either end, in any order, and asked for packets.       *)

\* frame i of the stream of a source: timestamps from 1, sequence numbers
\* from 0 for source 1 and from 65400 for source 2, whose numbers wrap
BatchFrame(ssrc, i) ==
    RealPkt(seq_wrapping_add(IF ssrc = 1 THEN 0 ELSE 65400, i), 1 + i, ssrc)

\* the frames that arrived one after the other, and those still to come
EarlyFrames == 2..(sort_uniq_queue_size - 2)
LateFrames == {0, 1} \cup ((sort_uniq_queue_size - 1)..(sort_uniq_queue_size + 1))

\* the channel of a source after add_pkt of its early frames, in order
Buffered(ssrc) ==
    [NewChannel(ssrc, 1, 0, 0) EXCEPT
        !.pkts = [k \in 1..Cardinality(EarlyFrames) |-> BatchFrame(ssrc, k + 1)],
        !.pkt_cnt = Cardinality(EarlyFrames)]

BatchInit ==
    /\ chls \in {<<Buffered(1), NewChannel(2, 1, 0, 0)>>,
                 <<NewChannel(1, 1, 0, 0), Buffered(2)>>,
                 <<Buffered(1), Buffered(2)>>}
    /\ op = InitOp
    /\ rel = <<NoRel, NoRel>>
    /\ panicked = FALSE
    /\ overflow_checks \in BOOLEAN
    /\ calls = [add |-> 0, get |-> 0]
    /\ nchls = <<>>
    /\ rd = NoReader
    /\ detector = CodecDetector_new(<<>>)
    /\ observed = NoneObserved

\* RtpDemuxer::add_pkt of a frame that has not arrived yet
BatchAddPkt(pkt) ==
    /\ \A k \in 1..Len(chls[pkt.ssrc].pkts) : chls[pkt.ssrc].pkts[k] # pkt
    /\ chls[pkt.ssrc].last_ts = None
    /\ DemuxAddPkt(pkt)

BatchNext ==
    \/ \E ssrc \in {1, 2}, i \in LateFrames : BatchAddPkt(BatchFrame(ssrc, i))
    \/ DemuxGetPkts(FALSE)

SpecBatch == BatchInit /\ [][BatchNext]_vars

----------------------------------------------------------------------------
\* the timestamps a channel has buffered
BufferedTs(c) == {c.pkts[k].ts : k \in 1..Len(c.pkts)}

\* the span of the buffered timestamps of a channel, in frames
TsSpan(c) ==
    IF c.pkts = <<>> THEN 0
    ELSE ((SeqMax(BufferedTs(c)) - SeqMin(BufferedTs(c))) \div c.delta_time) + 1

\* the channel owes nothing and holds full_batch frames in a row from its lowest
HoldsBatch(c) ==
    /\ c.missed = 0
    /\ c.pkts # <<>>
    /\ \A k \in 0..(full_batch - 1) : SeqMin(BufferedTs(c)) + k * c.delta_time \in BufferedTs(c)

\* the frames are the full_batch lowest of the channel, ascending, all real
LowestBatch(c, frames) ==
    /\ Len(frames) = full_batch
    /\ \A k \in 1..Len(frames) :
           /\ frames[k].real
           /\ frames[k].ts = SeqMin(BufferedTs(c)) + (k - 1) * c.delta_time

\* one run of frames for each channel, in the order of the channels
RECURSIVE OneEntryEach(_, _, _)
OneEntryEach(cs, i, out) ==
    IF i > Len(cs) THEN out = <<>>
    ELSE LET n == Len(of_ssrc(out, cs[i].ssrc))
         IN  /\ SubSeq(out, 1, n) = of_ssrc(out, cs[i].ssrc)
             /\ OneEntryEach(cs, i + 1, SubSeq(out, n + 1, Len(out)))

\* get_pkts(false) has just returned
BatchAsked == op.kind = "demux_get" /\ op.cnt = 0 /\ ~panicked

(* C17: get_pkts(false) returns None while the buffered timestamps of no   *)
(* channel span more than 250 frames; once those of some channel do, it    *)
(* returns the frames of every channel, channel after channel, and from a  *)
(* channel without debt that holds 50 frames in a row from its lowest      *)
(* timestamp exactly those 50, ascending, with no synthetic frame among    *)
(* them, in whatever order the packets arrived.                            *)
C17_FullBatch ==
    BatchAsked =>
        /\ op.exit = "none" <=> \A i \in 1..Len(op.pre) : TsSpan(op.pre[i]) <= sort_uniq_queue_size
        /\ op.exit = "some" =>
               /\ OneEntryEach(op.pre, 1, op.out)
               /\ \A i \in 1..Len(op.pre) :
                      HoldsBatch(op.pre[i])
                          => LowestBatch(op.pre[i], of_ssrc(op.out, op.pre[i].ssrc))

\* the same of the channels whose sequence numbers do not wrap, when the
\* buffer of no other channel is out of order
C17_FullBatchNoWrap ==
    (BatchAsked /\ \A i \in 1..Len(op.pre) : AscendingBySeq(op.pre[i].pkts)
                                             /\ \A k \in 1..(Len(op.pre[i].pkts) - 1) :
                                                    op.pre[i].pkts[k].ts < op.pre[i].pkts[k + 1].ts) =>
        /\ op.exit = "none" <=> \A i \in 1..Len(op.pre) : TsSpan(op.pre[i]) <= sort_uniq_queue_size
        /\ op.exit = "some" =>
               /\ OneEntryEach(op.pre, 1, op.out)
               /\ \A i \in 1..Len(op.pre) :
                      HoldsBatch(op.pre[i])
                          => LowestBatch(op.pre[i], of_ssrc(op.out, op.pre[i].ssrc))

\* a full batch has been returned from a channel that holds one
C17_WitnessBatch ==
    /\ BatchAsked
    /\ op.exit = "some"
    /\ HoldsBatch(op.pre[1])
    /\ LowestBatch(op.pre[1], of_ssrc(op.out, 1))

\* a channel that holds a full batch has returned something else
C17_WitnessWrap ==
    /\ BatchAsked
    /\ op.exit = "some"
    /\ HoldsBatch(op.pre[2])
    /\ ~LowestBatch(op.pre[2], of_ssrc(op.out, 2))

----------------------------------------------------------------------------
(* C18: Channel.sync(t) emits a frame only when the channel is idle        *)
(* (outside its active window at t), then exactly one synthetic frame, and *)
(* only if the time elapsed since its last synthetic emission exceeds one  *)
(* frame duration; on an active channel, or when no more than one frame    *)
(* duration has elapsed, the egress queue and the last synthetic time are  *)
(* unchanged.  The channels synced by an add_pkt are those of another SSRC.*)
Synced(j) ==
    /\ op.kind = "new_add"
    /\ ~panicked
    /\ j \in 1..Len(op.pre)
    /\ op.pre[j].ssrc # op.pkt.ssrc

Idle(j) == ~active([op.pre[j] EXCEPT !.timestamp = op.cnt])

Elapsed(j) == saturating_sub(op.cnt, op.pre[j].last_dummy_ts)

Emitted(j) == nchls[j].egress # op.pre[j].egress

Untouched(j) ==
    /\ nchls[j].egress = op.pre[j].egress
    /\ nchls[j].last_dummy_ts = op.pre[j].last_dummy_ts

OneSynthetic(j) ==
    /\ nchls[j].egress = Append(op.pre[j].egress, dummy(op.pre[j].ssrc))
    /\ nchls[j].last_dummy_ts = op.cnt

\* C18 as stated: a frame is due when more than one frame duration elapsed
C18_SyncExceeds ==
    \A j \in 1..Len(nchls) :
        Synced(j) =>
            /\ Emitted(j) =>
                   Idle(j) /\ OneSynthetic(j) /\ Elapsed(j) > op.pre[j].frame_dur
            /\ (~Idle(j) \/ Elapsed(j) <= op.pre[j].frame_dur) => Untouched(j)

\* C18 amended: a frame is due when at least one frame duration elapsed
C18_SyncAtLeast ==
    \A j \in 1..Len(nchls) :
        Synced(j) =>
            /\ Emitted(j) =>
                   Idle(j) /\ OneSynthetic(j) /\ Elapsed(j) >= op.pre[j].frame_dur
            /\ (~Idle(j) \/ Elapsed(j) < op.pre[j].frame_dur) => Untouched(j)

\* an idle channel is synced exactly one frame duration after its last frame
C18_WitnessExactly ==
    \E j \in 1..Len(nchls) :
        /\ Synced(j) /\ Idle(j) /\ Emitted(j)
        /\ Elapsed(j) = op.pre[j].frame_dur
        /\ op.pre[j].last_dummy_ts # 0

\* an active channel is synced long after its last synthetic frame
C18_WitnessActive ==
    \E j \in 1..Len(nchls) :
        Synced(j) /\ ~Idle(j) /\ Elapsed(j) > op.pre[j].frame_dur

----------------------------------------------------------------------------
(* C19: while a channel is idle and sibling channels keep receiving        *)
(* packets, the synthetic frames sync has emitted for it keep pace with    *)
(* elapsed time: after a sync at arrival time t in an idle period that     *)
(* began at t0 it has emitted (t - t0) \div frame_dur frames, whatever the *)
(* spacing of the arrival times.  Here the idle period is the one before   *)
(* the channel's first packet, t0 = 0 (where last_dummy_ts starts), and    *)
(* the channel has been given no packet, so that its egress queue holds    *)
(* the frames sync emitted.                                                *)
IdleFromStart(j) == Synced(j) /\ op.cnt < op.pre[j].first_packet

SyncFrames(j) == Len(nchls[j].egress)

C19_KeepsPace ==
    \A j \in 1..Len(nchls) :
        IdleFromStart(j) => SyncFrames(j) = op.cnt \div op.pre[j].frame_dur

\* the silent leg is two frames or more behind the elapsed time
C19_WitnessBehind ==
    \E j \in 1..Len(nchls) :
        /\ IdleFromStart(j)
        /\ SyncFrames(j) + 2 <= op.cnt \div op.pre[j].frame_dur

\* arrivals one frame duration apart: the silent leg has kept pace
C19_WitnessInStep ==
    \E j \in 1..Len(nchls) :
        /\ IdleFromStart(j)
        /\ SyncFrames(j) = 3
        /\ op.cnt = 3 * op.pre[j].frame_dur

----------------------------------------------------------------------------
(* C20: RtpDemuxer.add_pkt(pkt, t) of a packet whose SSRC has a channel    *)
(* gives the packet to that channel (Channel.add_pkt(pkt, t)) and then     *)
(* calls sync(t) once on every other channel, with the same arrival time;  *)
(* sync is not called on the owning channel, whose last synthetic time     *)
(* stays as it was.                                                        *)
Routed == op.kind = "new_add" /\ op.chl # 0

C20_SyncsOthers ==
    Routed =>
        /\ ~panicked
        /\ nchls[op.chl] = new_add_pkt(op.pre[op.chl], op.pkt, op.cnt, overflow_checks).chl
        /\ nchls[op.chl].last_dummy_ts = op.pre[op.chl].last_dummy_ts
        /\ \A j \in 1..Len(nchls) :
               j # op.chl =>
                   /\ nchls[j] = sync(op.pre[j], op.cnt)
                   /\ nchls[j].timestamp = op.cnt
                   /\ nchls[j].ingress = op.pre[j].ingress

\* the packet's channel is idle and due a synthetic frame, another channel
\* is given one, and the packet's channel is not
C20_WitnessOwnerIdle ==
    /\ Routed
    /\ ~active(nchls[op.chl])
    /\ op.cnt - op.pre[op.chl].last_dummy_ts >= op.pre[op.chl].frame_dur
    /\ \E j \in 1..Len(nchls) : Synced(j) /\ Emitted(j)

----------------------------------------------------------------------------
(* C21: RtpDemuxer.get_pkt tries the channels in ascending order of their  *)
(* ingress depth at the call and returns the frame of the first channel    *)
(* whose get_pkt gives one; it returns None only when no channel's get_pkt *)
(* gives a frame, and it changes the state of at most the one channel that *)
(* gave the returned frame.                                                *)
Able(j) == new_get_pkt(op.pre[j], overflow_checks).some

GaveFrame(i) ==
    LET r == new_get_pkt(op.pre[i], overflow_checks)
    IN  /\ r.some
        /\ op.out = <<r.pkt>>
        /\ nchls = [op.pre EXCEPT ![i] = r.chl]
        /\ \A j \in 1..Len(op.pre) :
               Able(j) => ingress_len(op.pre[i]) <= ingress_len(op.pre[j])

C21_StarvedFirst ==
    op.kind = "new_get" =>
        /\ ~panicked
        /\ IF op.out = <<>>
           THEN nchls = op.pre /\ \A j \in 1..Len(op.pre) : ~Able(j)
           ELSE \E i \in 1..Len(op.pre) : GaveFrame(i)

\* both channels could give a frame and the later one in the Vec, whose
\* ingress is shallower, gave it
C21_WitnessShallower ==
    /\ op.kind = "new_get"
    /\ Able(1) /\ Able(2)
    /\ ingress_len(op.pre[2]) < ingress_len(op.pre[1])
    /\ GaveFrame(2)

\* the shallower channel is tried first and gives nothing; the deeper one
\* gives the frame
C21_WitnessSkips ==
    /\ op.kind = "new_get"
    /\ \E i, j \in 1..Len(op.pre) :
           /\ ingress_len(op.pre[j]) < ingress_len(op.pre[i])
           /\ ~Able(j)
           /\ GaveFrame(i)

\* frames are buffered and no channel gives one
C21_WitnessNone ==
    /\ op.kind = "new_get"
    /\ op.out = <<>>
    /\ \E j \in 1..Len(op.pre) : op.pre[j].ingress # <<>>

----------------------------------------------------------------------------
(* C22: RtpDemuxer.get_all_pkts appends every frame of every channel's     *)
(* egress queue to the caller's queue, channel by channel in the order of  *)
(* the channels and first-in first-out within a channel, and leaves every  *)
(* egress queue empty and the rest of each channel as it was: no frame is  *)
(* lost or duplicated.                                                     *)
EgressBefore(i) == SeqSum([j \in 1..(i - 1) |-> Len(op.pre[j].egress)])

C22_DrainAll ==
    op.kind = "new_get_all" =>
        /\ ~panicked
        /\ Len(op.out) = Len(op.mid) + EgressBefore(Len(op.pre) + 1)
        /\ \A k \in 1..Len(op.mid) : op.out[k] = op.mid[k]
        /\ \A i \in 1..Len(op.pre) : \A k \in 1..Len(op.pre[i].egress) :
               op.out[Len(op.mid) + EgressBefore(i) + k] = op.pre[i].egress[k]
        /\ nchls = [i \in 1..Len(op.pre) |-> [op.pre[i] EXCEPT !.egress = <<>>]]

\* the queue holds a frame already, the first channel holds two frames and
\* the second channel one
C22_WitnessTwoFrames ==
    /\ op.kind = "new_get_all"
    /\ op.mid # <<>>
    /\ \E i, j \in 1..Len(op.pre) :
           i # j /\ Len(op.pre[i].egress) >= 2 /\ op.pre[j].egress # <<>>

----------------------------------------------------------------------------
(* C23: the order of the reorder buffer is wraparound-safe: when the       *)
(* sequence numbers of a channel wrap from 65535 to 0, packets arriving in *)
(* any order are buffered in transmission order (.., 65534, 65535, 0, 1,   *)
(* ..): a packet is after another when their difference modulo 2^16 is     *)
(* less than half the range.                                               *)
SentBefore(a, b) == ((b - a) % U16) < (U16 \div 2)

TransmissionOrder(q) ==
    \A i \in 1..Len(q), j \in 1..Len(q) : i < j => SentBefore(q[i].seq, q[j].seq)

C23_WrapOrder == op.kind = "add" => TransmissionOrder(chls[op.chl].pkts)

\* 65535 arrived after 0 and is buffered behind it
C23_WitnessBehind ==
    /\ op.kind = "add"
    /\ op.pkt.seq = U16 - 1
    /\ Len(chls[op.chl].pkts) = 2
    /\ chls[op.chl].pkts[1].seq = 0
    /\ chls[op.chl].pkts[2].seq = U16 - 1

\* arrival in transmission order across the wrap keeps that order
C23_WitnessInOrder ==
    /\ op.kind = "add"
    /\ Len(chls[op.chl].pkts) = 3
    /\ chls[op.chl].pkts[1].seq = U16 - 1
    /\ chls[op.chl].pkts[2].seq = 0
    /\ chls[op.chl].pkts[3].seq = 1

----------------------------------------------------------------------------
(* C24: for all sequence numbers a and b, SeqNum(b) + SeqNum(SeqNum(a) -   *)
(* SeqNum(b)) = a, both operators wrapping modulo 2^16; 0 - 65535 = 1 and  *)
(* 2 - 3 = 65535.                                                          *)
C24_RoundTrip ==
    /\ op.kind = "seq_add" => op.out = <<op.mid[1]>> /\ op.cnt \in 0..(U16 - 1)
    /\ (op.kind = "seq_sub" /\ op.mid = <<0, U16 - 1>>) => op.out = <<1>>
    /\ (op.kind = "seq_sub" /\ op.mid = <<2, 3>>) => op.out = <<U16 - 1>>

\* the difference wrapped below 0 and the sum wrapped past 65535
C24_WitnessWraps ==
    /\ op.kind = "seq_add"
    /\ op.mid[1] < op.mid[2]
    /\ op.mid[2] + op.cnt >= U16

----------------------------------------------------------------------------
(* C25: for every well-formed octet-aligned AMR or AMR-WB payload (the     *)
(* byte 0xF0, a chain of entries with frame types of the table, then       *)
(* exactly the frame bytes the entries declare) parse_octect_aligned       *)
(* succeeds and returns one frame per entry, and the length derived from   *)
(* the chain (each entry's byte and its frame) is the length of the buffer *)
(* less the 0xF0 byte.                                                     *)
C25_OaRoundTrip ==
    op.kind = "parse_oa" =>
        /\ op.exit = "ok"
        /\ Len(op.out) = Len(op.pre)
        /\ Len(op.pre) + SeqSum([i \in 1..Len(op.out) |-> Len(op.out[i])]) = Len(op.mid) - 1

\* one AMR frame of type 0 after its entry, 14 bytes in all, is refused
C25_WitnessOneFrame ==
    /\ op.kind = "parse_oa"
    /\ op.before = AMR_PAYLOAD_SIZES
    /\ op.pre = <<0>>
    /\ Len(op.mid) = AMR_PAYLOAD_SIZES[1] + 1
    /\ op.exit = "err"

\* no payload of either layout is accepted
C25_NeverOk == op.kind = "parse_oa" => op.exit = "err" /\ op.out = <<>>

----------------------------------------------------------------------------
(* C26: every payload parser (AMR and AMR-WB, octet-aligned and            *)
(* bandwidth-efficient, and EVS header-full) returns an error and yields   *)
(* no frame when the frame type of a table-of-contents entry lies outside  *)
(* the codec's table.                                                      *)
C26_BadTocRefused == op.kind = "parse" => op.exit = "err" /\ op.out = <<>>

\* the AMR and AMR-WB parsers do refuse such a chain
C26_AmrRefused ==
    (op.kind = "parse" /\ op.before \in AmrParsers) =>
        ~panicked /\ op.exit = "err" /\ op.out = <<>>

\* parse_evs takes the EVS Primary frame type 12 for a frame of one byte
\* and returns it
C26_WitnessEvsFrame ==
    /\ op.kind = "parse"
    /\ op.before = "evs"
    /\ op.pre = <<12>>
    /\ op.exit = "ok"
    /\ Len(op.out) = 1

\* an AMR-WB bandwidth-efficient entry of frame type 15 is refused
C26_WitnessBeRefused ==
    /\ op.kind = "parse"
    /\ op.before = "amrwb_be"
    /\ op.pre = <<0, 15>>
    /\ op.exit = "err"

----------------------------------------------------------------------------
(* C27: for every packet parse_rtp accepts, payload() is non-empty and     *)
(* leaves out the whole extension header and all the padding: its length   *)
(* is the packet's length - 12 - (4 + 4 * extension length when the        *)
(* extension flag is set) - (the padding count in the last byte when the   *)
(* padding flag is set), and it is the byte range parse_rtp validated as   *)
(* the payload.                                                            *)
ExtBytes(raw) == IF rtp_extension(raw) THEN 4 + 4 * (raw[15] * 256 + raw[16]) ELSE 0

PadBytes(raw) == IF rtp_padding(raw) THEN raw[Len(raw)] ELSE 0

C27_PayloadStripped ==
    op.kind = "payload" =>
        /\ ~panicked
        /\ op.out # <<>>
        /\ Len(op.out) = Len(op.mid) - 12 - ExtBytes(op.mid) - PadBytes(op.mid)
        /\ op.out = parse_rtp_rem(op.mid)

\* without extension and padding the payload is all that follows the header
C27_PlainPayload ==
    (op.kind = "payload" /\ ~rtp_extension(op.mid) /\ ~rtp_padding(op.mid)) =>
        /\ ~panicked
        /\ op.out = SubSeq(op.mid, 13, Len(op.mid))
        /\ op.out = parse_rtp_rem(op.mid)
        /\ op.out # <<>>

\* payload() never fails and is never empty on a packet parse_rtp accepted
C27_NonEmpty == op.kind = "payload" => ~panicked /\ op.out # <<>>

\* an extension header of no words, no padding: payload() begins with the
\* last two bytes of the extension header
C27_WitnessExtension ==
    /\ op.kind = "payload"
    /\ rtp_extension(op.mid) /\ ~rtp_padding(op.mid)
    /\ ExtBytes(op.mid) = 4
    /\ Len(op.out) = Len(op.mid) - 12 - 2
    /\ op.out[1] = op.mid[15] /\ op.out[2] = op.mid[16]

\* padding and no extension: payload() has the length stated, one byte more
\* than parse_rtp validated
C27_WitnessPadding ==
    /\ op.kind = "payload"
    /\ ~rtp_extension(op.mid) /\ rtp_padding(op.mid)
    /\ PadBytes(op.mid) > 0
    /\ Len(op.out) = Len(op.mid) - 12 - PadBytes(op.mid)
    /\ Len(op.out) = Len(parse_rtp_rem(op.mid)) + 1

----------------------------------------------------------------------------
(* C28: when the packets of a channel are added in strictly increasing     *)
(* order of sequence number, add_pkt never takes the insertion-sort path   *)
(* (the search for the first buffered packet with a greater sequence       *)
(* number): every packet is appended through the tail fast path, the first *)
(* one into the empty buffer.                                              *)
C28_AlwaysFastPath == op.kind = "add" => op.exit \in {"empty", "fast"}

\* C28 amended: no packet is inserted before a buffered one, each is put at
\* the tail; the fast path is taken exactly by a packet whose sequence
\* number is one more than the tail's, and any other packet goes through
\* the search, which finds nothing
C28_AlwaysAtTail ==
    op.kind = "add" =>
        /\ chls[1].pkts = Append(op.pre.pkts, op.pkt)
        /\ op.exit \in {"empty", "fast", "search_append"}
        /\ op.exit = "empty" <=> op.pre.pkts = <<>>
        /\ op.exit = "fast" <=>
               /\ op.pre.pkts # <<>>
               /\ op.pkt.seq = op.pre.pkts[Len(op.pre.pkts)].seq + 1

\* a packet two sequence numbers after the tail goes through the search
C28_WitnessGap ==
    /\ op.kind = "add"
    /\ op.pre.pkts # <<>>
    /\ op.pkt.seq = op.pre.pkts[Len(op.pre.pkts)].seq + 2
    /\ op.exit = "search_append"

\* three consecutive packets: the fast path twice
C28_WitnessConsecutive ==
    /\ op.kind = "add"
    /\ op.exit = "fast"
    /\ Len(chls[1].pkts) = 3
    /\ chls[1].pkts[2].seq = chls[1].pkts[1].seq + 1

----------------------------------------------------------------------------
(* C29: one call get_pkts(N) returns at most N + m frames, m the missed    *)
(* debt at entry; with no debt it returns at most N frames, and the        *)
(* packets it has not delivered, the one that would be frame N + 1 first,  *)
(* are left in the reorder buffer in their order for the next call.        *)
Taken == Len(op.pre.pkts) - Len(chls[op.chl].pkts)

LeftInBuffer ==
    /\ Taken >= 0
    /\ chls[op.chl].pkts = SubSeq(op.pre.pkts, Taken + 1, Len(op.pre.pkts))
    /\ \A i \in 1..Len(op.out) :
           op.out[i].real => \E j \in 1..Taken : op.pre.pkts[j] = op.out[i]

C29_AtMostDebt ==
    (op.kind = "get" /\ ~panicked) =>
        /\ Len(op.out) <= op.cnt + op.pre.missed
        /\ LeftInBuffer
        /\ op.pre.missed = 0 => Len(op.out) <= op.cnt

\* no debt, N frames returned, and the packet one frame after the last of
\* them is still at the head of the buffer
C29_WitnessLeft ==
    /\ op.kind = "get" /\ ~panicked
    /\ op.pre.missed = 0
    /\ op.cnt > 0
    /\ Len(op.out) = op.cnt
    /\ chls[op.chl].pkts # <<>>
    /\ gap_of(Head(chls[op.chl].pkts).ts, chls[op.chl].last_ts, chls[op.chl].delta_time) = 1

\* a debt of m at entry and N + m frames returned
C29_WitnessDebt ==
    /\ op.kind = "get" /\ ~panicked
    /\ op.pre.missed > 0
    /\ Len(op.out) = op.cnt + op.pre.missed

----------------------------------------------------------------------------
(* C30: missed debt is repaid one frame for one frame: over any sequence   *)
(* of get_pkts(N) calls on a channel that has not reached its end, the     *)
(* frames released so far plus the current missed are N times the number   *)
(* of calls whenever a call returns, and missed goes back to 0 only when   *)
(* the whole debt has been released.                                       *)
C30_DebtRepaid ==
    (op.kind = "get" /\ ~panicked) =>
        /\ calls.released + chls[1].missed = calls.n * calls.get
        /\ (op.pre.missed > 0 /\ chls[1].missed = 0) =>
               Len(op.out) = op.cnt + op.pre.missed

\* a debt of two frames at entry, one frame more than N returned, and
\* missed back at 0
C30_WitnessForgiven ==
    /\ op.kind = "get" /\ ~panicked
    /\ op.pre.missed = 2
    /\ Len(op.out) = op.cnt + 1
    /\ chls[1].missed = 0

\* a debt of one frame is repaid by one frame
C30_WitnessSingle ==
    /\ op.kind = "get" /\ ~panicked
    /\ op.pre.missed = 1
    /\ Len(op.out) = op.cnt + 1
    /\ chls[1].missed = 0
    /\ calls.released = calls.n * calls.get

----------------------------------------------------------------------------
(* C31: a real packet that is less than one frame interval after the last  *)
(* delivered timestamp when get_pkts pops it is discarded: it is not       *)
(* released and the call ends as if the packet had never been buffered;    *)
(* so no two frames released from the first real frame on carry the same   *)
(* timestamp.                                                              *)

\* the head of the buffer is stale on entry and the loop will pop it
StaleHead ==
    /\ op.kind = "get"
    /\ op.pre.last_ts # None
    /\ op.pre.pkts # <<>>
    /\ gap_of(Head(op.pre.pkts).ts, op.pre.last_ts, op.pre.delta_time) = 0
    /\ op.cnt + op.pre.missed > 0

\* the timestamp delivered before frame j of the call's result
DeliveredBefore(j) == IF j = 1 THEN op.pre.last_ts ELSE op.out[j - 1].ts

C31_StaleDiscarded ==
    /\ StaleHead =>
           LET r == get_pkts([op.pre EXCEPT !.pkts = Tail(@)], op.cnt, overflow_checks)
           IN  /\ panicked = r.panic
               /\ op.out = r.out
               /\ chls[op.chl] = r.chl
    /\ (op.kind = "get" /\ ~panicked) =>
           \A j \in 1..Len(op.out) :
               (op.out[j].real /\ DeliveredBefore(j) # None) =>
                   gap_of(op.out[j].ts, DeliveredBefore(j), op.pre.delta_time) >= 1

\* a stale packet is discarded without a trace and no timestamp is released
\* twice
C31_NoRepeat == C31_StaleDiscarded /\ ~calls.repeat

\* a duplicate of the frame delivered last is popped and dropped, and the
\* call goes on to release the packet behind it
C31_WitnessDuplicate ==
    /\ StaleHead /\ ~panicked
    /\ Head(op.pre.pkts).ts = op.pre.last_ts
    /\ Len(op.pre.pkts) > 1
    /\ HasReal(op.out)
    /\ chls[op.chl].pkts = <<>>

----------------------------------------------------------------------------
(* C32: the window [start, end] that the detection pass of try_new         *)
(* computes for an SSRC admits, in the replay pass, every packet of that   *)
(* SSRC: add_pkt counts (pkt_cnt) every packet next_packet has routed to   *)
(* the channel, also when the capture is reordered.                        *)

\* the records next_packet has read so far and routed to the channel of ssrc
Replayed(ssrc) ==
    {k \in 1..rd.pos : /\ rtp_ssrc(rd.file[k]) = ssrc
                       /\ ~parse_rtp_event(payload(rd.file[k]).buf)}

C32_WindowAdmits ==
    (rd.phase = "ready" /\ ~panicked) =>
        \A i \in 1..Len(chls) :
            chls[i].pkt_cnt = Cardinality(Replayed(chls[i].ssrc))

\* the whole capture, audio of one SSRC, was replayed and the window
\* refused one of its packets
C32_WitnessRejected ==
    /\ rd.phase = "ready" /\ ~panicked
    /\ rd.pos = Len(rd.file)
    /\ \E i \in 1..Len(chls) :
           \E k \in Replayed(chls[i].ssrc) :
               /\ window_reject(chls[i], SimplePkt(rd.file[k]))
               /\ chls[i].pkt_cnt < Cardinality(Replayed(chls[i].ssrc))
               /\ Cardinality(Replayed(chls[i].ssrc)) = Len(rd.file)

\* a capture in its order of transmission is replayed whole
C32_WitnessInOrder ==
    /\ rd.phase = "ready" /\ ~panicked
    /\ rd.pos = 3
    /\ Len(chls) = 1
    /\ chls[1].pkt_cnt = 3

----------------------------------------------------------------------------
(* C33: for every dynamic payload type and every codec the match counter   *)
(* never exceeds the payload type's total-packet counter: one observed     *)
(* packet counts at most once for a codec, however many of the codec's     *)
(* features it matches.                                                    *)

\* codec_stat[pt][codec], 0 where there is no entry
MatchCount(d, pt, codec) ==
    IF pt \in DOMAIN d.codec_stat /\ codec \in DOMAIN d.codec_stat[pt]
    THEN d.codec_stat[pt][codec] ELSE 0

\* pt_pkt_stat[pt], 0 where there is no entry
TotalCount(d, pt) == IF pt \in DOMAIN d.pt_pkt_stat THEN d.pt_pkt_stat[pt] ELSE 0

C33_MatchWithinTotal ==
    \A pt \in DOMAIN detector.codec_stat :
        is_dynamic(pt) =>
            \A codec \in 1..Len(detector.features) :
                MatchCount(detector, pt, codec) <= TotalCount(detector, pt)

\* one packet observed, and a codec counted twice for it
C33_WitnessTwice ==
    /\ op.kind = "on_pkt" /\ ~panicked
    /\ TotalCount(detector, DynPt) = 1
    /\ \E codec \in 1..Len(detector.features) : MatchCount(detector, DynPt, codec) = 2

\* with one feature for each codec the counters stay within the total
C33_OneFeatureWithinTotal ==
    (\A i \in 1..Len(detector.features) : Len(detector.features[i].fts) = 1) =>
        C33_MatchWithinTotal

----------------------------------------------------------------------------
(* C34: on a dynamic payload type, a packet of payload size s and          *)
(* normalized delta d matches a non-SID feature (S, D) iff d * S = D * s   *)
(* and a SID feature iff s = S; once the payload type has shown more than  *)
(* max_uniq_payload_size_num distinct payload lengths it stays             *)
(* dynamic-length and a feature then matches iff its delta_time is d.      *)

\* the packet of the last on_pkt: its payload size, its delta against the
\* packet of its source seen before it, and the lengths its type has shown
PktSize == Len(payload(op.pkt).buf)
PktDelta ==
    wrapping_sub(rtp_ts(op.pkt), last_ts(op.pre, rtp_ssrc(op.pkt)))
        \div ((rtp_seq(op.pkt) - last_seq(op.pre, rtp_ssrc(op.pkt)) + U16) % U16)
LengthsShown(d, pt) ==
    IF pt \in DOMAIN d.payload_size_stat THEN d.payload_size_stat[pt] ELSE {}
DynamicLength(d, pt) == Cardinality(LengthsShown(d, pt)) > max_uniq_payload_size_num

\* the features of a codec that the packet matches by the stated rule
StatedMatches(codec) ==
    {j \in 1..Len(detector.features[codec].fts) :
        LET ft == detector.features[codec].fts[j]
        IN  IF DynamicLength(detector, DynPt) THEN ft.delta_time = PktDelta
            ELSE IF ft.sid_frame THEN PktSize = ft.payload_size
            ELSE PktDelta * ft.payload_size = ft.delta_time * PktSize}

C34_MatchRule ==
    (op.kind = "on_pkt" /\ ~panicked) =>
        /\ \A codec \in 1..Len(detector.features) :
               MatchCount(detector, DynPt, codec) =
                   MatchCount(op.pre, DynPt, codec) + Cardinality(StatedMatches(codec))
        /\ DynamicLength(op.pre, DynPt) => DynamicLength(detector, DynPt)

\* the same rule, a packet of size 0 and delta 0 having no ratio: it
\* matches no non-SID feature
RatioMatches(codec) ==
    {j \in 1..Len(detector.features[codec].fts) :
        LET ft == detector.features[codec].fts[j]
        IN  IF DynamicLength(detector, DynPt) THEN ft.delta_time = PktDelta
            ELSE IF ft.sid_frame THEN PktSize = ft.payload_size
            ELSE /\ PktSize > 0 \/ PktDelta > 0
                 /\ PktDelta * ft.payload_size = ft.delta_time * PktSize}

C34_MatchRuleRatio ==
    (op.kind = "on_pkt" /\ ~panicked) =>
        /\ \A codec \in 1..Len(detector.features) :
               MatchCount(detector, DynPt, codec) =
                   MatchCount(op.pre, DynPt, codec) + Cardinality(RatioMatches(codec))
        /\ DynamicLength(op.pre, DynPt) => DynamicLength(detector, DynPt)

\* equal ratios of different numbers: size 2 at delta 8 counted for a
\* feature of size 1 and delta_time 4
C34_WitnessRatio ==
    /\ op.kind = "on_pkt" /\ ~panicked
    /\ ~DynamicLength(detector, DynPt)
    /\ PktSize = 2 /\ PktDelta = 8
    /\ \E codec \in 1..Len(detector.features) :
           \E j \in StatedMatches(codec) :
               detector.features[codec].fts[j].payload_size = 1

\* a packet after the fourth distinct length, matched on its delta alone
C34_WitnessDynamic ==
    /\ op.kind = "on_pkt" /\ ~panicked
    /\ DynamicLength(op.pre, DynPt)
    /\ \E codec \in 1..Len(detector.features) :
           \E j \in StatedMatches(codec) :
               /\ detector.features[codec].fts[j].payload_size # PktSize
               /\ detector.features[codec].fts[j].sid_frame

\* a comfort-noise size matched whatever the delta
C34_WitnessSid ==
    /\ op.kind = "on_pkt" /\ ~panicked
    /\ ~DynamicLength(detector, DynPt)
    /\ PktSize = 5 /\ PktDelta = 4
    /\ \E codec \in 1..Len(detector.features) : StatedMatches(codec) # {}

----------------------------------------------------------------------------
(* C35: for one observed packet that matches features of both amrwb and    *)
(* evs, at most one of the two families is credited: the one whose         *)
(* validator accepts the payload, amrwb when both accept, whatever the     *)
(* order of the two codecs in the profile; neither when neither validator  *)
(* accepts.                                                                *)

\* what the last on_pkt added to the counter of the codec of that name
Credited(name) ==
    LET codec == find_codec_named(detector.features, name)
    IN  MatchCount(detector, DynPt, codec) - MatchCount(op.pre, DynPt, codec)

\* the validators on the payload of the last on_pkt
AcceptsAmrwb == is_amrwb(payload(op.pkt).buf).ok
AcceptsEvs == is_evs(payload(op.pkt).buf)

C35_OneFamily ==
    (op.kind = "on_pkt" /\ ~panicked) =>
        /\ Credited("amrwb") = 0 \/ Credited("evs") = 0
        /\ Credited("amrwb") > 0 <=> AcceptsAmrwb
        /\ Credited("evs") > 0 <=> (AcceptsEvs /\ ~AcceptsAmrwb)

\* both validators accept: evs declared first, and both families credited
C35_WitnessBoth ==
    /\ op.kind = "on_pkt" /\ ~panicked
    /\ AcceptsAmrwb /\ AcceptsEvs
    /\ detector.features[1].name = "evs"
    /\ Credited("amrwb") = 1 /\ Credited("evs") = 1

\* amrwb declared first: amrwb alone is credited when both accept, evs
\* when its validator alone accepts, neither when neither does
C35_AmrwbFirst ==
    (detector.features[1].name = "amrwb") => C35_OneFamily

C35_WitnessPrecedence ==
    /\ op.kind = "on_pkt" /\ ~panicked
    /\ AcceptsAmrwb /\ AcceptsEvs
    /\ detector.features[1].name = "amrwb"
    /\ Credited("amrwb") = 1 /\ Credited("evs") = 0

C35_WitnessNeither ==
    /\ op.kind = "on_pkt" /\ ~panicked
    /\ ~AcceptsAmrwb /\ ~AcceptsEvs
    /\ TotalCount(detector, DynPt) > TotalCount(op.pre, DynPt)
    /\ Credited("amrwb") = 0 /\ Credited("evs") = 0

C35_WitnessEvsOnly ==
    /\ op.kind = "on_pkt" /\ ~panicked
    /\ ~AcceptsAmrwb /\ AcceptsEvs
    /\ Credited("evs") > 0

C35_WitnessAmrwbOnly ==
    /\ op.kind = "on_pkt" /\ ~panicked
    /\ AcceptsAmrwb /\ ~AcceptsEvs
    /\ Credited("amrwb") = 1 /\ Credited("evs") = 0

----------------------------------------------------------------------------
(* C36: a packet whose payload is exactly four bytes is treated as         *)
(* telephony-event signalling: on_pkt leaves the detector (counters,       *)
(* last-seen sequence number and timestamp, payload lengths) unchanged,    *)
(* and the replay pass routes the packet to no channel.                    *)

\* the records next_packet has read so far that stand for ssrc and are
\* not in Skipped
RoutedRecords(ssrc, Skipped) ==
    {k \in 1..rd.pos : rtp_ssrc(rd.file[k]) = ssrc /\ k \notin Skipped}

FourBytes == {k \in 1..Len(rd.file) : Len(payload(rd.file[k]).buf) = 4}

\* four bytes, the first of them one of the event codes 0..16
KnownEvent(buf) == Len(buf) = 4 /\ buf[1] \in 0..16

KnownEvents == {k \in 1..Len(rd.file) : KnownEvent(payload(rd.file[k]).buf)}

C36_FourBytesSkipped ==
    /\ (op.kind = "on_pkt" /\ ~panicked /\ Len(payload(op.pkt).buf) = 4) =>
           detector = op.pre
    /\ (rd.phase = "ready" /\ ~panicked) =>
           \A i \in 1..Len(chls) :
               chls[i].pkt_cnt <= Cardinality(RoutedRecords(chls[i].ssrc, FourBytes))

\* the same of a four-byte payload whose first byte is a known event code,
\* and of no other: four bytes with another first byte are counted by the
\* detector and routed to their channel like audio
C36_KnownEventSkipped ==
    /\ (op.kind = "on_pkt" /\ ~panicked) =>
           /\ KnownEvent(payload(op.pkt).buf) => detector = op.pre
           /\ (/\ ~KnownEvent(payload(op.pkt).buf)
               /\ is_dynamic(rtp_payload_type(op.pkt))
               /\ rtp_seq(op.pkt) # last_seq(op.pre, rtp_ssrc(op.pkt))) =>
                  TotalCount(detector, rtp_payload_type(op.pkt)) =
                      TotalCount(op.pre, rtp_payload_type(op.pkt)) + 1
    /\ (rd.phase = "ready" /\ ~panicked) =>
           \A i \in 1..Len(chls) :
               chls[i].pkt_cnt <= Cardinality(RoutedRecords(chls[i].ssrc, KnownEvents))

\* an event read by next_packet, the audio record behind it routed and the
\* event not, and then an event observed by a detector that has counted
C36_WitnessEvent ==
    /\ op.kind = "on_pkt" /\ ~panicked
    /\ KnownEvent(payload(op.pkt).buf)
    /\ op.pre.pt_pkt_stat # <<>>
    /\ rd.phase = "ready"
    /\ rd.pos >= 2 /\ 1 \in KnownEvents /\ 2 \notin FourBytes
    /\ chls[1].pkt_cnt >= 1
    /\ chls[1].pkt_cnt = Cardinality(RoutedRecords(chls[1].ssrc, KnownEvents))

\* four bytes that are no event, counted by the detector
C36_WitnessCounted ==
    /\ op.kind = "on_pkt" /\ ~panicked
    /\ payload(op.pkt).buf = NoEvent
    /\ detector # op.pre

\* four bytes that are no event, routed to the channel
C36_WitnessRouted ==
    /\ rd.phase = "ready" /\ ~panicked
    /\ FourBytes = 1..Len(rd.file) /\ KnownEvents = {}
    /\ chls[1].pkt_cnt = rd.pos /\ rd.pos > 0

----------------------------------------------------------------------------
(* C37: RtpDemuxer.add_pkt returns true only when the packet just added    *)
(* is the first packet accepted by its channel while another channel       *)
(* already holds packets; it returns false for every later packet of any   *)
(* channel and for a packet that is dropped, and always for a demuxer of   *)
(* one channel.                                                            *)

\* the packet of the last add_pkt was the first its channel accepted, and
\* another channel had accepted packets before
FirstOfNewChannel ==
    /\ op.chl # 0
    /\ op.pre[op.chl].pkt_cnt = 0
    /\ chls[op.chl].pkt_cnt = 1
    /\ \E j \in 1..Len(chls) : j # op.chl /\ op.pre[j].pkt_cnt > 0

C37_TrueOnlyForNewChannel ==
    (op.kind = "demux_add" /\ op.exit = "true") => FirstOfNewChannel

\* true for the second packet of a channel: the other channel still counts
\* one packet
C37_WitnessLaterPacket ==
    /\ op.kind = "demux_add" /\ op.exit = "true"
    /\ op.chl # 0
    /\ op.pre[op.chl].pkt_cnt = 1 /\ chls[op.chl].pkt_cnt = 2

\* true for a packet that is dropped
C37_WitnessDropped ==
    /\ op.kind = "demux_add" /\ op.exit = "true"
    /\ chls = op.pre

\* true when a new channel is found
C37_WitnessNewChannel ==
    /\ op.kind = "demux_add" /\ op.exit = "true"
    /\ FirstOfNewChannel

\* a demuxer of one channel never asks for alignment
C37_SingleChannelFalse ==
    (op.kind = "demux_add" /\ Len(chls) = 1) => op.exit = "false"

----------------------------------------------------------------------------
(* C38: in Channel.get_pkt of demuxer_new.rs, when the popped ingress      *)
(* packet lies k > 1 frame intervals after the delivered cursor, the k - 1 *)
(* synthetic frames queued ahead of it carry the timestamps                *)
(* delivered + delta_time, ..., delivered + (k - 1) * delta_time, and      *)
(* frames leave the egress queue in ascending timestamp order, so that the *)
(* delivered cursor never moves backwards.                                 *)

\* get_pkt ran and went past its guard with a packet to pop
Popped ==
    /\ op.kind \in {"fill_add", "fill_get"}
    /\ op.mid # <<>>
    /\ finished(op.mid[1]) \/ ingress_full(op.mid[1], op.mid[1].ingress_sort_uniq_len)
    /\ op.mid[1].ingress # <<>>
    /\ ~panicked

\* the frame intervals between the delivered cursor and the popped packet
Intervals ==
    saturating_sub(Head(op.mid[1].ingress).ts, op.mid[1].delivered) \div op.mid[1].delta_time

PoppedAfterGap == Popped /\ op.mid[1].delivered # None /\ Intervals > 1

\* the egress queue as get_pkt filled it, before its pop_front
FilledEgress == op.out \o nchls[1].egress

\* the frames get_pkt queued ahead of the popped packet
Synthetic == SubSeq(FilledEgress, Len(op.mid[1].egress) + 1, Len(FilledEgress) - 1)

C38_SyntheticTimestamps ==
    PoppedAfterGap =>
        /\ Len(Synthetic) = Intervals - 1
        /\ \A i \in 1..Len(Synthetic) :
               /\ ~Synthetic[i].real
               /\ Synthetic[i].ts = op.mid[1].delivered + i * op.mid[1].delta_time

\* packets that came in ascending order never move the cursor backwards
C38_CursorForward ==
    (Popped /\ calls.asc /\ op.mid[1].delivered # None) =>
        nchls[1].delivered >= op.mid[1].delivered

C38_GapFilledAscending == C38_SyntheticTimestamps /\ C38_CursorForward

\* the count of synthetic frames is the one stated, and each is a dummy
C38_SyntheticCount ==
    PoppedAfterGap =>
        /\ Len(Synthetic) = Intervals - 1
        /\ \A i \in 1..Len(Synthetic) : ~Synthetic[i].real
        /\ FilledEgress[Len(FilledEgress)] = Head(op.mid[1].ingress)

\* the synthetic frames carry timestamps after the popped packet
C38_WitnessAfterPacket ==
    /\ PoppedAfterGap
    /\ Len(Synthetic) >= 1
    /\ \A i \in 1..Len(Synthetic) :
           Synthetic[i].ts = Head(op.mid[1].ingress).ts + i * op.mid[1].delta_time

\* the cursor moves backwards though the packets came in ascending order
C38_WitnessBackwards ==
    /\ Popped /\ calls.asc /\ op.mid[1].delivered # None
    /\ nchls[1].delivered < op.mid[1].delivered
    /\ op.out # <<>> /\ op.out[1].real

----------------------------------------------------------------------------
(* C39: Channel.get_pkt of demuxer_new.rs releases nothing and changes no  *)
(* channel state while the channel is not finished and its ingress depth   *)
(* does not exceed ingress_sort_uniq_len.                                  *)

\* get_pkt ran on a channel still in progress whose window has not filled
Held ==
    /\ op.kind \in {"fill_add", "fill_get"}
    /\ op.mid # <<>>
    /\ ~finished(op.mid[1])
    /\ ingress_len(op.mid[1]) <= op.mid[1].ingress_sort_uniq_len

C39_HeldBack == Held => (op.out = <<>> /\ nchls[1] = op.mid[1])

\* packets wait in a window that is exactly full and none is released
C39_WitnessHeld ==
    /\ Held
    /\ ingress_len(op.mid[1]) = op.mid[1].ingress_sort_uniq_len
    /\ op.out = <<>>

\* a packet is released once the depth exceeds the window
C39_WitnessReleased ==
    /\ op.kind = "fill_add" /\ op.mid # <<>>
    /\ ~finished(op.mid[1])
    /\ ingress_len(op.mid[1]) > op.mid[1].ingress_sort_uniq_len
    /\ op.out # <<>>

============================================================================
